---------------------------- MODULE Spec2Model ----------------------------
(***************************************************************************)
(* The modified UTF-7 codec of the IMAP driver (src/imap/utf7.c) and the   *)
(* URL functions (src/url.c).                                              *)
(*                                                                         *)
(* utf7_to_utf8 and utf8_to_utf7 are modelled as step machines: one action *)
(* per pass through a loop body, with the locals of the C functions as     *)
(* variables.  A run converts one input with the first function and, when  *)
(* that succeeds, converts the result back with the other one.             *)
(*                                                                         *)
(* Byte strings are sequences of integers 0..255.  NULL is modelled by a   *)
(* result record with ok = FALSE.                                          *)
(*                                                                         *)
(* The functions of url.c are operators on byte strings; a run of SpecUrl  *)
(* calls one of them on an input and, for url_pct_encode and url_parse,    *)
(* hands the result to url_pct_decode and url_tostring.                    *)
(***************************************************************************)
EXTENDS Integers, Sequences, FiniteSets, TLC

VARIABLES
  mode,        \* "u7": utf7_to_utf8 first, then utf8_to_utf7; "u8" and "raw": the
               \* reverse, on UTF-8 text and on arbitrary bytes
  charSigned,  \* whether plain char is signed in this build
  input,       \* the bytes handed to the first function
  stage,       \* 1: first function running or returned, 2: second function
  pc,          \* "dec", "shift" (utf7_to_utf8), "enc" (utf8_to_utf7), "ret"
  src,         \* the bytes of the running call (u7 or u8 at entry)
  off,         \* bytes consumed so far: the current value of u7 / u8 minus its entry value
  ulen,        \* the current value of u7len / u8len
  p,           \* bytes written to buf so far (buf[0 .. p-buf-1])
  ch,          \* utf7_to_utf8: ch; utf8_to_utf7: ch of the last code point
  k,           \* k
  b,           \* b
  base64,      \* utf8_to_utf7: base64
  res1,        \* what the first function returned
  res2,        \* what the second function returned
  buf,         \* buf of the running call: "malloc" (the block allocated at
               \* entry), "realloc" (the block after mutt_mem_realloc) or "NULL"
  outPtr,      \* the caller's pointer that u8 / u7 of the first call points to
  outLen,      \* the caller's length that u8len / u7len of the first call points to
  fn,          \* the function of url.c a run of SpecUrl calls first, "none" in a
               \* run of the codec
  upc,         \* "call", "second" (the first call has returned), "done", "crash"
  text,        \* the string given to url_pct_encode, url_pct_decode or url_parse
  size,        \* l of url_pct_encode, len of url_tostring
  flags,       \* flags of url_tostring
  url,         \* the struct Url url_tostring is given, or url_parse has filled
  url2,        \* a second struct Url given to url_tostring
  rc,          \* what url_pct_decode or url_parse returned
  enc,         \* the string url_pct_encode left in dst
  dec,         \* the bytes url_pct_decode left in its argument
  dest,        \* the string url_tostring left in dest for url
  dest2,       \* the string url_tostring left in dest for url2
  oob,         \* a byte was written outside the buffer it was meant for
  parse,       \* url_parse while it runs: see ParseStart
  Charset,     \* imap_utf_decode: the global Charset, "NULL" when it is not set
  unicode,     \* idata->unicode
  wpc,         \* imap_utf_decode: "idle", "call", "utf7" (utf7_to_utf8 runs),
               \* "convert" (t is assigned), "done"
  sPtr,        \* *s: the block it points to and the string in it
  tPtr,        \* t
  freed,       \* the blocks that were freed
  crc,         \* what the calls of mutt_ch_convert_string returned
  ctx,         \* struct Context: the counters, changed, readonly, rights, magic
  hdrs,        \* the struct Header of each message of the mailbox
  FlagSafe,    \* the option FlagSafe
  calls,       \* the calls of mutt_set_flag_update made so far
  allUpd,      \* upd_ctx was true in each of them
  Aliases,     \* the alias table: the name and the addresses of each alias
  UseDomain,   \* the option UseDomain, with a host name to qualify with
  apc,         \* mutt_expand_aliases: "idle", "run", "done"
  frames,      \* the calls of expand_aliases_r that are open, the innermost
               \* first: a, head, and the list being expanded
  expn,        \* expn, the head first
  ret,         \* what mutt_expand_aliases returned
  expanded     \* the alias names whose addresses were copied, in order

codecVars == <<mode, charSigned, input, stage, pc, src, off, ulen, p, ch, k, b,
               base64, res1, res2, buf, outPtr, outLen>>

urlVars == <<fn, upc, text, size, flags, url, url2, rc, enc, dec, dest, dest2, oob,
             parse>>

utfVars == <<Charset, unicode, wpc, sPtr, tPtr, freed, crc>>

flagVars == <<ctx, hdrs, FlagSafe, calls, allUpd>>

aliasVars == <<Aliases, UseDomain, apc, frames, expn, ret, expanded>>

vars == <<codecVars, urlVars, utfVars, flagVars, aliasVars>>

-----------------------------------------------------------------------------
(* Bounds of the model *)

\* longest input enumerated over the whole wire alphabet
MaxWireLen == 3
\* most Base64 digits in an enumerated shift sequence
MaxDigits == 6
\* longest enumerated sequence of code points over the whole alphabet
MaxCpsAll == 2
\* longest enumerated sequence of code points over the core alphabet
MaxCps == 4
\* longest enumerated sequence of arbitrary bytes given to utf8_to_utf7
MaxRawLen == 2
\* longest string given to url_pct_encode
MaxPctLen == 3
\* longest string given to url_pct_decode
MaxDecLen == 4

-----------------------------------------------------------------------------
(* Bit operations on non-negative ints *)

RECURSIVE BitOr(_, _)
BitOr(x, y) ==
  IF x = 0 THEN y
  ELSE IF y = 0 THEN x
  ELSE (IF x % 2 = 1 \/ y % 2 = 1 THEN 1 ELSE 0) + 2 * BitOr(x \div 2, y \div 2)

RECURSIVE BitAnd(_, _)
BitAnd(x, y) ==
  IF x = 0 \/ y = 0 THEN 0
  ELSE (IF x % 2 = 1 /\ y % 2 = 1 THEN 1 ELSE 0) + 2 * BitAnd(x \div 2, y \div 2)

RECURSIVE Pow2(_)
Pow2(n) == IF n = 0 THEN 1 ELSE 2 * Pow2(n - 1)

Shl(x, n) == x * Pow2(n)
Shr(x, n) == x \div Pow2(n)

-----------------------------------------------------------------------------
(* The tables *)

\* the table of MIME Base64, where '/' and not ',' is the digit 63
Index64uMime ==
  << -1,-1,-1,-1, -1,-1,-1,-1, -1,-1,-1,-1, -1,-1,-1,-1,
     -1,-1,-1,-1, -1,-1,-1,-1, -1,-1,-1,-1, -1,-1,-1,-1,
     -1,-1,-1,-1, -1,-1,-1,-1, -1,-1,-1,62, -1,-1,-1,63,
     52,53,54,55, 56,57,58,59, 60,61,-1,-1, -1,-1,-1,-1,
     -1, 0, 1, 2,  3, 4, 5, 6,  7, 8, 9,10, 11,12,13,14,
     15,16,17,18, 19,20,21,22, 23,24,25,-1, -1,-1,-1,-1,
     -1,26,27,28, 29,30,31,32, 33,34,35,36, 37,38,39,40,
     41,42,43,44, 45,46,47,48, 49,50,51,-1, -1,-1,-1,-1 >>

Index64u ==
  << -1,-1,-1,-1, -1,-1,-1,-1, -1,-1,-1,-1, -1,-1,-1,-1,
     -1,-1,-1,-1, -1,-1,-1,-1, -1,-1,-1,-1, -1,-1,-1,-1,
     -1,-1,-1,-1, -1,-1,-1,-1, -1,-1,-1,62, 63,-1,-1,-1,
     52,53,54,55, 56,57,58,59, 60,61,-1,-1, -1,-1,-1,-1,
     -1, 0, 1, 2,  3, 4, 5, 6,  7, 8, 9,10, 11,12,13,14,
     15,16,17,18, 19,20,21,22, 23,24,25,-1, -1,-1,-1,-1,
     -1,26,27,28, 29,30,31,32, 33,34,35,36, 37,38,39,40,
     41,42,43,44, 45,46,47,48, 49,50,51,-1, -1,-1,-1,-1 >>

\* 'A'..'Z', 'a'..'z', '0'..'9', '+', ','
B64Chars ==
  << 65, 66, 67, 68, 69, 70, 71, 72, 73, 74, 75, 76, 77,
     78, 79, 80, 81, 82, 83, 84, 85, 86, 87, 88, 89, 90,
     97, 98, 99, 100, 101, 102, 103, 104, 105, 106, 107, 108, 109,
     110, 111, 112, 113, 114, 115, 116, 117, 118, 119, 120, 121, 122,
     48, 49, 50, 51, 52, 53, 54, 55, 56, 57, 43, 44 >>

\* Index64u[(int) c] for a byte c without the high bit
Index64uAt(c) == Index64u[c + 1]

\* B64Chars[v]
B64CharsAt(v) == B64Chars[v + 1]

-----------------------------------------------------------------------------
(* Reading the source bytes *)

\* The value of the expression *u7 for a stored byte: plain char promoted to int
CharVal(signed, byte) == IF signed /\ byte >= 128 THEN byte - 256 ELSE byte

\* u7[i] / u8[i]: the stored byte i places after the current position
At(s, o, i) == s[o + i + 1]

NullResult == [ok |-> FALSE, buf |-> << >>]


\* return from the running function with result r
Return(r) ==
  /\ pc' = "ret"
  /\ IF stage = 1 THEN res1' = r /\ UNCHANGED res2
                  ELSE res2' = r /\ UNCHANGED res1

\* goto bail: the buffer is freed and NULL is returned
Bail ==
  /\ Return(NullResult)
  /\ buf' = "NULL"
  /\ UNCHANGED <<outPtr, outLen>>

\* the first call is given the addresses of a pointer and a length of its
\* caller, the second call NULL and 0 as in imap_utf_encode and imap_utf_decode
HasOut == stage = 1

\* the caller's pointer is set before the block is resized
OutPtrStale(old, new) == old

\* if (u8) *u8 = buf, after mutt_mem_realloc(&buf, p - buf)
OutPtrAfter(old, new) == new

\* the end of both functions: the terminated text bytes is returned
Finish(bytes) ==
  /\ Return([ok |-> TRUE, buf |-> bytes])
  /\ outLen' = (IF HasOut THEN Len(bytes) ELSE outLen)
  /\ buf' = "realloc"
  /\ outPtr' = (IF HasOut THEN OutPtrAfter(buf, "realloc") ELSE outPtr)

-----------------------------------------------------------------------------
(* utf7_to_utf8 *)

\* the inner loop's break condition; b is assigned by the table lookup
BreaksShift(byte) ==
  IF BitAnd(byte, \h80) # 0 THEN TRUE ELSE Index64uAt(byte) = -1

\* the space is taken for a control character
PrintableUnitGt(c) == \h20 < c /\ c < \h7f

\* Printable US-ASCII
PrintableUnit(c) == \h20 <= c /\ c < \h7f

\* only the number of extra bits is tested
ExtraBitsCount(c, kk) == kk < 6

\* Non-zero or too many extra bits
ExtraBits(c, kk) == c # 0 \/ kk < 6

\* only the end of the input is tested
NotTerminatedAtEnd(s, o, n) == n = 0

\* BASE64 not properly terminated
NotTerminated(s, o, n) ==
  IF n = 0 THEN TRUE ELSE CharVal(charSigned, At(s, o, 0)) # 45

\* the test for adjacent sections is left out
AdjacentSectionsNever(s, o, n) == FALSE

\* Adjacent BASE64 sections
AdjacentSections(s, o, n) ==
  /\ n > 2
  /\ CharVal(charSigned, At(s, o, 1)) = 38
  /\ CharVal(charSigned, At(s, o, 2)) # 45

\* only the upper end of the range is tested
NotPrintableByteHigh(c) == c >= \h7f

\* the space is taken for a control character
NotPrintableByteLe(c) == c <= \h20 \/ c >= \h7f

\* Not printable US-ASCII
NotPrintableByte(c) == c < \h20 \/ c >= \h7f

\* the bytes stored for one 16-bit unit; each store keeps the low 8 bits
Utf8Bytes(c) ==
  IF c < \h80 THEN << c >>
  ELSE IF c < \h800 THEN
    << BitOr(\hc0, Shr(c, 6)) % 256,
       BitOr(\h80, BitAnd(c, \h3f)) % 256 >>
  ELSE
    << BitOr(\he0, Shr(c, 12)) % 256,
       BitOr(\h80, BitAnd(Shr(c, 6), \h3f)) % 256,
       BitOr(\h80, BitAnd(c, \h3f)) % 256 >>

\* u7++, u7len--
Advance(n) == off' = off + n /\ ulen' = ulen - n

\* the byte of the terminating NUL is not counted
Utf8BufSizeNoNul(len) == len + len \div 8

\* mutt_mem_malloc(u7len + u7len / 8 + 1)
Utf8BufSize(len) == len + len \div 8 + 1

\* "&-": a literal '&'
DecAmpDash ==
  /\ pc = "dec" /\ ulen # 0
  /\ CharVal(charSigned, At(src, off, 0)) = 38
  /\ ulen - 1 # 0 /\ CharVal(charSigned, At(src, off, 1)) = 45
  /\ p' = Append(p, 38)
  /\ Advance(2)
  /\ UNCHANGED <<mode, charSigned, input, stage, pc, src, ch, k, b, base64, res1, res2,
               buf, outPtr, outLen>>
  /\ UNCHANGED <<urlVars, utfVars, flagVars, aliasVars>>

\* '&' not followed by '-': a shift sequence starts
DecShiftOpen ==
  /\ pc = "dec" /\ ulen # 0
  /\ CharVal(charSigned, At(src, off, 0)) = 38
  /\ ~(ulen - 1 # 0 /\ CharVal(charSigned, At(src, off, 1)) = 45)
  /\ ch' = 0
  /\ k' = 10
  /\ pc' = "shift"
  /\ Advance(1)
  /\ UNCHANGED <<mode, charSigned, input, stage, src, p, b, base64, res1, res2,
               buf, outPtr, outLen>>
  /\ UNCHANGED <<urlVars, utfVars, flagVars, aliasVars>>

\* the last digit's bits are shifted the wrong way
UnitOfShl(c, v, kk) == BitOr(c, Shl(v, -kk))

\* ch after the Base64 digit of value v completes a 16-bit unit
UnitOf(c, v, kk) == BitOr(c, Shr(v, -kk))

\* one Base64 digit of a shift sequence
DecDigit ==
  /\ pc = "shift" /\ ulen # 0
  /\ ~BreaksShift(At(src, off, 0))
  /\ LET v == Index64uAt(At(src, off, 0)) IN
       /\ b' = v
       /\ IF k > 0
            THEN /\ ch' = BitOr(ch, Shl(v, k))
                 /\ k' = k - 6
                 /\ UNCHANGED p
            ELSE /\ ~(UnitOf(ch, v, k) < \h80 /\ PrintableUnit(UnitOf(ch, v, k)))
                 /\ p' = p \o Utf8Bytes(UnitOf(ch, v, k))
                 /\ ch' = BitAnd(Shl(v, 16 + k), \hffff)
                 /\ k' = k + 10
  /\ Advance(1)
  /\ UNCHANGED <<mode, charSigned, input, stage, pc, src, base64, res1, res2, buf, outPtr, outLen>>
  /\ UNCHANGED <<urlVars, utfVars, flagVars, aliasVars>>

\* a unit in the printable range came out of the Base64 digits
DecBailPrintable ==
  /\ pc = "shift" /\ ulen # 0
  /\ ~BreaksShift(At(src, off, 0))
  /\ k <= 0
  /\ LET v == Index64uAt(At(src, off, 0)) IN
       /\ UnitOf(ch, v, k) < \h80 /\ PrintableUnit(UnitOf(ch, v, k))
       /\ b' = v
       /\ ch' = UnitOf(ch, v, k)
  /\ Bail
  /\ UNCHANGED <<mode, charSigned, input, stage, src, off, ulen, p, k, base64>>
  /\ UNCHANGED <<urlVars, utfVars, flagVars, aliasVars>>

\* the inner loop has ended: at the end of the input or at a byte that is no digit
ShiftEnded ==
  /\ pc = "shift"
  /\ IF ulen = 0 THEN TRUE ELSE BreaksShift(At(src, off, 0))

\* b after the inner loop's last test
BAfterBreak ==
  IF ulen # 0 /\ BitAnd(At(src, off, 0), \h80) = 0
    THEN Index64uAt(At(src, off, 0))
    ELSE b

DecBailExtraBits ==
  /\ ShiftEnded
  /\ ExtraBits(ch, k)
  /\ b' = BAfterBreak
  /\ Bail
  /\ UNCHANGED <<mode, charSigned, input, stage, src, off, ulen, p, ch, k, base64>>
  /\ UNCHANGED <<urlVars, utfVars, flagVars, aliasVars>>

DecBailUnterminated ==
  /\ ShiftEnded
  /\ ~ExtraBits(ch, k)
  /\ NotTerminated(src, off, ulen)
  /\ b' = BAfterBreak
  /\ Bail
  /\ UNCHANGED <<mode, charSigned, input, stage, src, off, ulen, p, ch, k, base64>>
  /\ UNCHANGED <<urlVars, utfVars, flagVars, aliasVars>>

DecBailAdjacent ==
  /\ ShiftEnded
  /\ ~ExtraBits(ch, k)
  /\ ~NotTerminated(src, off, ulen)
  /\ AdjacentSections(src, off, ulen)
  /\ b' = BAfterBreak
  /\ Bail
  /\ UNCHANGED <<mode, charSigned, input, stage, src, off, ulen, p, ch, k, base64>>
  /\ UNCHANGED <<urlVars, utfVars, flagVars, aliasVars>>

\* the shift sequence is closed by its '-'
DecShiftClose ==
  /\ ShiftEnded
  /\ ~ExtraBits(ch, k)
  /\ ~NotTerminated(src, off, ulen)
  /\ ~AdjacentSections(src, off, ulen)
  /\ b' = BAfterBreak
  /\ pc' = "dec"
  /\ Advance(1)
  /\ UNCHANGED <<mode, charSigned, input, stage, src, p, ch, k, base64, res1, res2,
               buf, outPtr, outLen>>
  /\ UNCHANGED <<urlVars, utfVars, flagVars, aliasVars>>

DecBailNotPrintable ==
  /\ pc = "dec" /\ ulen # 0
  /\ CharVal(charSigned, At(src, off, 0)) # 38
  /\ NotPrintableByte(CharVal(charSigned, At(src, off, 0)))
  /\ Bail
  /\ UNCHANGED <<mode, charSigned, input, stage, src, off, ulen, p, ch, k, b, base64>>
  /\ UNCHANGED <<urlVars, utfVars, flagVars, aliasVars>>

\* a printable byte is copied
DecLiteral ==
  /\ pc = "dec" /\ ulen # 0
  /\ CharVal(charSigned, At(src, off, 0)) # 38
  /\ ~NotPrintableByte(CharVal(charSigned, At(src, off, 0)))
  /\ p' = Append(p, At(src, off, 0))
  /\ Advance(1)
  /\ UNCHANGED <<mode, charSigned, input, stage, pc, src, ch, k, b, base64, res1, res2,
               buf, outPtr, outLen>>
  /\ UNCHANGED <<urlVars, utfVars, flagVars, aliasVars>>

\* the end of the input: the result is terminated and returned
DecFinish ==
  /\ pc = "dec" /\ ulen = 0
  /\ p' = Append(p, 0)
  /\ Finish(Append(p, 0))
  /\ UNCHANGED <<mode, charSigned, input, stage, src, off, ulen, ch, k, b, base64>>
  /\ UNCHANGED <<urlVars, utfVars, flagVars, aliasVars>>

-----------------------------------------------------------------------------
(* utf8_to_utf7 *)

\* the lead byte c (an unsigned char) starts no UTF-8 sequence
BadLead(c) == (c >= \h80 /\ c < \hc2) \/ c >= \hfe

\* n for the lead byte c
TrailCount(c) ==
  IF c < \h80 THEN 0
  ELSE IF c < \he0 THEN 1
  ELSE IF c < \hf0 THEN 2
  ELSE IF c < \hf8 THEN 3
  ELSE IF c < \hfc THEN 4
  ELSE 5

\* ch for the lead byte c
LeadBits(c) ==
  IF c < \h80 THEN c
  ELSE IF c < \he0 THEN BitAnd(c, \h1f)
  ELSE IF c < \hf0 THEN BitAnd(c, \h0f)
  ELSE IF c < \hf8 THEN BitAnd(c, \h07)
  ELSE IF c < \hfc THEN BitAnd(c, \h03)
  ELSE BitAnd(c, \h01)

\* the loop over the n continuation bytes s[o+i ..]: ch after it, -1 on goto bail
RECURSIVE ContFold(_, _, _, _, _)
ContFold(s, o, n, i, c) ==
  IF i >= n THEN c
  ELSE IF BitAnd(At(s, o, i), \hc0) # \h80 THEN -1
  ELSE ContFold(s, o, n, i + 1, BitOr(Shl(c, 6), BitAnd(At(s, o, i), \h3f)))

\* one bit less is asked of the value
OverlongShort(n, c) == n > 1 /\ Shr(c, n * 5) = 0

\* n > 1 && !(ch >> (n * 5 + 1))
Overlong(n, c) == n > 1 /\ Shr(c, n * 5 + 1) = 0

\* ch of the code point at s[o ..] with len bytes left, -1 on goto bail
CodePoint(s, o, len) ==
  LET c == At(s, o, 0)
      n == TrailCount(c)
  IN IF BadLead(c) THEN -1
     ELSE IF n > len - 1 THEN -1
     ELSE LET v == ContFold(s, o + 1, n, 0, LeadBits(c))
          IN IF v = -1 THEN -1
             ELSE IF Overlong(n, v) THEN -1
             ELSE v

\* DEL is taken for printable
NeedsShiftGt(c) == c < \h20 \/ c > \h7f

\* ch < 0x20 || ch >= 0x7f
NeedsShift(c) == c < \h20 \/ c >= \h7f

\* the high bits are dropped
ClampTruncate(c) == BitAnd(c, \hffff)

\* if (ch & ~0xffff) ch = 0xfffe, for a non-negative int ch
Clamp(c) == IF BitAnd(c, \h7fff0000) # 0 THEN \hfffe ELSE c

\* the byte of the terminating NUL is not counted
Utf7BufSizeNoNul(len) == (len \div 2) * 7 + 5

\* mutt_mem_malloc((u8len / 2) * 7 + 6)
Utf7BufSize(len) == (len \div 2) * 7 + 6

\* the digit of the lowest six bits is left out
RECURSIVE MoreDigitsAboveZero(_, _)
MoreDigitsAboveZero(c, kk) ==
  IF kk > 0
    THEN << B64CharsAt(BitAnd(Shr(c, kk), \h3f)) >> \o MoreDigitsAboveZero(c, kk - 6)
    ELSE << >>

\* for (; k >= 0; k -= 6) *p++ = B64Chars[(ch >> k) & 0x3f]
RECURSIVE MoreDigits(_, _)
MoreDigits(c, kk) ==
  IF kk >= 0
    THEN << B64CharsAt(BitAnd(Shr(c, kk), \h3f)) >> \o MoreDigits(c, kk - 6)
    ELSE << >>

\* k when that loop ends
RECURSIVE KAfterDigits(_)
KAfterDigits(kk) == IF kk >= 0 THEN KAfterDigits(kk - 6) ELSE kk

\* the digits written for the code point c with b and k as given
UnitDigits(c, bb, kk) ==
  << B64CharsAt(BitOr(bb, Shr(c, kk))) >> \o MoreDigits(c, kk - 6)

\* the pending digit is written also when k is 10
FlushDigitGe(bb, kk) == IF kk >= 10 THEN << B64CharsAt(bb) >> ELSE << >>

\* if (k > 10) *p++ = B64Chars[b]
FlushDigit(bb, kk) == IF kk > 10 THEN << B64CharsAt(bb) >> ELSE << >>

\* the open shift sequence is closed
CloseShift(open, bb, kk) ==
  IF open THEN FlushDigit(bb, kk) \o << 45 >> ELSE << >>

\* the '-' after a literal '&' is left out
LiteralBytesPlain(c) == << c >>

\* *p++ = ch; if (ch == '&') *p++ = '-'
LiteralBytes(c) == IF c = 38 THEN << c, 45 >> ELSE << c >>

\* the bytes the code point at the current position takes
Consumed == 1 + TrailCount(At(src, off, 0))

\* malformed UTF-8
EncBail ==
  /\ pc = "enc" /\ ulen # 0
  /\ CodePoint(src, off, ulen) = -1
  /\ Bail
  /\ UNCHANGED <<mode, charSigned, input, stage, src, off, ulen, p, ch, k, b, base64>>
  /\ UNCHANGED <<urlVars, utfVars, flagVars, aliasVars>>

\* a code point that goes into a shift sequence
EncShift ==
  /\ pc = "enc" /\ ulen # 0
  /\ CodePoint(src, off, ulen) # -1
  /\ NeedsShift(CodePoint(src, off, ulen))
  /\ LET c  == Clamp(CodePoint(src, off, ulen))
         b0 == IF base64 THEN b ELSE 0
         k0 == IF base64 THEN k ELSE 10
         k1 == KAfterDigits(k0 - 6)
     IN /\ p' = p \o (IF base64 THEN << >> ELSE << 38 >>) \o UnitDigits(c, b0, k0)
        /\ base64' = TRUE
        /\ ch' = c
        /\ b' = BitAnd(Shl(c, -k1), \h3f)
        /\ k' = k1 + 16
  /\ Advance(Consumed)
  /\ UNCHANGED <<mode, charSigned, input, stage, pc, src, res1, res2, buf, outPtr, outLen>>
  /\ UNCHANGED <<urlVars, utfVars, flagVars, aliasVars>>

\* a printable code point
EncLiteral ==
  /\ pc = "enc" /\ ulen # 0
  /\ CodePoint(src, off, ulen) # -1
  /\ ~NeedsShift(CodePoint(src, off, ulen))
  /\ LET c == CodePoint(src, off, ulen)
     IN /\ p' = p \o CloseShift(base64, b, k) \o LiteralBytes(c)
        /\ ch' = c
  /\ base64' = FALSE
  /\ Advance(Consumed)
  /\ UNCHANGED <<mode, charSigned, input, stage, pc, src, k, b, res1, res2, buf, outPtr, outLen>>
  /\ UNCHANGED <<urlVars, utfVars, flagVars, aliasVars>>

\* the end of the input
EncFinish ==
  /\ pc = "enc" /\ ulen = 0
  /\ p' = p \o CloseShift(base64, b, k) \o << 0 >>
  /\ Finish(p \o CloseShift(base64, b, k) \o << 0 >>)
  /\ UNCHANGED <<mode, charSigned, input, stage, src, off, ulen, ch, k, b, base64>>
  /\ UNCHANGED <<urlVars, utfVars, flagVars, aliasVars>>

-----------------------------------------------------------------------------
(* The inputs *)

\* all sequences over S of length at most n
SeqsUpTo(S, n) == UNION { [1..m -> S] : m \in 0..n }

RECURSIVE Flatten(_)
Flatten(ss) == IF ss = << >> THEN << >> ELSE Head(ss) \o Flatten(Tail(ss))

\* bytes outside a shift sequence, Base64 digits, '&', '-', non-digits, the
\* ends of the printable range, a control byte and bytes with the high bit
WireAlphabet ==
  { \h1f, \h20, \h26, \h2c, \h2d, \h2f, \h41, \h43, \h4d, \h7e, \h7f, \h80, \hff }

\* 'A' (0), 'C' (2), 'M' (12)
DigitCore == { \h41, \h43, \h4d }

\* what follows the digits of an enumerated shift sequence:
\* "", "-", "!", "-!", "-&", "-&-", "-&A", "-&AMA-", "-AMA-"
Tails ==
  { << >>, << 45 >>, << 33 >>, << 45, 33 >>, << 45, 38 >>, << 45, 38, 45 >>,
    << 45, 38, 65 >>, << 45, 38, 65, 77, 65, 45 >>, << 45, 65, 77, 65, 45 >> }

ShiftWires ==
  { << 38 >> \o d \o t : d \in SeqsUpTo(DigitCore, MaxDigits), t \in Tails }

WireVectors ==
  { << 38, 65, 67, 89, 45 >>,                          \* &ACY-
    << 38, 65, 77, 65, 45, 38, 65, 77, 65, 45 >>,      \* &AMA-&AMA-
    << 38, 65, 77, 65, 65, 119, 65, 45 >>,             \* &AMAAwA-
    << 38, 65, 77, 65, 45, 38, 45 >>,                  \* &AMA-&-
    << 38, 65, 45 >>,                                  \* &A-
    << 38, 65, 65, 45 >>,                              \* &AA-
    << 38, 65, 65, 66, 45 >>,                          \* &AAB-
    << 38, 65, 65, 65 >>,                              \* &AAA
    << 38 >>,                                          \* &
    << 38, 65, 65, 65, 33 >>,                          \* &AAA!
    << 38, 45 >>,                                      \* &-
    << 38, 74, 106, 111, 45 >>,                        \* &Jjo-
    << 82, 111, 38, 45, 32, 104, 111, 109, 101 >>,     \* Ro&- home
    << 38, 65, 66, 56, 45 >>,                          \* &AB8-   U+001F
    << 38, 65, 67, 65, 45 >>,                          \* &ACA-   U+0020
    << 38, 65, 72, 52, 45 >>,                          \* &AH4-   U+007E
    << 38, 65, 72, 56, 45 >>,                          \* &AH8-   U+007F
    << 38, 65, 77, 65, 65, 74, 103, 45 >>,             \* &AMAAJg-      U+00C0 U+0026
    << 38, 65, 77, 65, 65, 119, 65, 65, 109, 45 >>,    \* &AMAAwAAm-   U+00C0 U+00C0 U+0026
    << 38, 65, 77, 65, 65, 119, 65, 68, 65, 45 >>,     \* &AMAAwADA-   three units
    << 38, 65, 77, 65, 65, 119, 65, 68, 65, 65, 77, 65, 45 >>, \* &AMAAwADAAMA-   four units
    << 38, 65, 77, 65, 65, 119, 65, 68, 45 >>,         \* &AMAAwAD-    seven digits
    << 38, 65, 77, 65, 65, 119, 65, 68, 65, 65, 45 >>, \* &AMAAwADAA-  nine digits
    << 38, 65, 77, 65, 65, 119, 65, 68, 65, 65, 77, 45 >>, \* &AMAAwADAAM- ten digits
    << 38, 74, 106, 112, 45 >>,                        \* &Jjp-   non-zero extra bits
    << 38, 74, 106, 111, 47 >>,                        \* &Jjo/
    << 38, 47, 47, 47, 45 >>,                          \* &///-
    << 38, 44, 44, 56, 45 >>,                          \* &,,8-   U+FFFF
    << 38, 47, 47, 56, 45 >> }                         \* &//8-

WireInputs == SeqsUpTo(WireAlphabet, MaxWireLen) \cup ShiftWires \cup WireVectors

\* the UTF-8 form of a code point up to U+FFFF
Utf8Of(cp) ==
  IF cp < 128 THEN << cp >>
  ELSE IF cp < 2048 THEN << 192 + (cp \div 64), 128 + (cp % 64) >>
  ELSE << 224 + (cp \div 4096), 128 + ((cp \div 64) % 64), 128 + (cp % 64) >>

Utf8String(cps) == Flatten([i \in 1..Len(cps) |-> Utf8Of(cps[i])])

\* NUL, tab, the ends of the printable range, '&', '-', 'A', DEL and the ends
\* of the 2-byte and 3-byte ranges
CpAlphabet ==
  { \h00, \h09, \h1f, \h20, \h26, \h2d, \h41, \h7e, \h7f, \h80, \hc0, \h7ff,
    \h800, \h263a, \hfffe, \hffff }

\* tab, '&', 'A', U+00C0, U+263A
CpCore == { \h09, \h26, \h41, \hc0, \h263a }

Utf8Inputs ==
  { Utf8String(cps) : cps \in SeqsUpTo(CpAlphabet, MaxCpsAll) \cup SeqsUpTo(CpCore, MaxCps) }

\* lead bytes of every length, continuation bytes, the ends of each range
RawAlphabet ==
  { \h41, \h7f, \h80, \hbf, \hc0, \hc1, \hc2, \hdf, \he0, \hef, \hf0, \hf7,
    \hf8, \hfb, \hfc, \hfd, \hfe, \hff }

\* the bytes of the sequence a lead byte announces, 0 for a byte that is no lead
SequenceLength(lead) ==
  IF lead <= \h7f THEN 1
  ELSE IF lead >= \hc2 /\ lead <= \hdf THEN 2
  ELSE IF lead >= \he0 /\ lead <= \hef THEN 3
  ELSE IF lead >= \hf0 /\ lead <= \hf7 THEN 4
  ELSE IF lead >= \hf8 /\ lead <= \hfb THEN 5
  ELSE IF lead >= \hfc /\ lead <= \hfd THEN 6
  ELSE 0

\* the ends of the ranges of the lead bytes of 3 to 6 byte sequences
MultiLeads == { \he0, \hef, \hf0, \hf7, \hf8, \hfb, \hfc, \hfd }

\* first continuation bytes on both sides of the least value of each length
ContFirst == { \h80, \h83, \h84, \h87, \h88, \h8f, \h90, \h9f, \ha0, \hbf }

\* the ends of the range of the other continuation bytes
ContRest == { \h80, \hbf }

\* bytes that are no continuation byte
NotCont == { \h00, \h41, \h7f, \hc0, \hff }

\* lead, first continuation byte c1, every other continuation byte r
Sequence(lead, c1, r) ==
  << lead, c1 >> \o [i \in 1..(SequenceLength(lead) - 2) |-> r]

\* sequences of 3 to 6 bytes with continuation bytes only
MultiByte ==
  { Sequence(l, c1, r) : l \in MultiLeads, c1 \in ContFirst, r \in ContRest }

MultiByteCore == { Sequence(l, \ha0, \h80) : l \in MultiLeads }

\* one byte after the lead replaced by a byte that is no continuation byte
BadContinuation ==
  UNION { { [m EXCEPT ![j] = x] : j \in 2..Len(m), x \in NotCont } :
          m \in MultiByteCore }

\* a sequence cut short by the end of the input
Truncated ==
  UNION { { SubSeq(m, 1, j) : j \in 1..(Len(m) - 1) } : m \in MultiByteCore }

\* a sequence after 'A' and U+00C0 and before U+263A and '&'
Embedded ==
  { << \h41, \hc3, \h80 >> \o m \o << \he2, \h98, \hba, \h26 >> :
      m \in { Sequence(l, c1, \h80) : l \in MultiLeads, c1 \in ContFirst } }

\* two and three sequences in a row, and a sequence before a bad lead byte
Chained ==
  { m \o n : m \in MultiByteCore, n \in MultiByteCore }
    \cup { m \o m \o m : m \in MultiByteCore }
    \cup { m \o << \h80 >> : m \in MultiByteCore }

RawInputs ==
  SeqsUpTo(RawAlphabet, MaxRawLen) \cup MultiByte \cup BadContinuation
    \cup Truncated \cup Embedded \cup Chained

InputsOf(m) ==
  IF m = "u7" THEN WireInputs
  ELSE IF m = "u8" THEN Utf8Inputs
  ELSE RawInputs

-----------------------------------------------------------------------------
(* The run *)

\* a char pointer that is NULL
Null == << -1 >>

\* a struct Url with nothing set
NoUrl ==
  [scheme |-> "U_UNKNOWN", user |-> Null, pass |-> Null, host |-> Null,
   port |-> 0, path |-> Null, query |-> << >>]

\* url_parse when it is not running: where it stands, the value it is to
\* return, the buffer, src and t, and the fields of *u as places in the buffer
\* from 1, 0 being the null pointer
NoParse ==
  [at |-> "none", rc |-> 0, bf |-> << 0 >>, sp |-> 1, tp |-> 0,
   scheme |-> "U_UNKNOWN", user |-> 0, pass |-> 0, host |-> 0, port |-> 0,
   path |-> 0, query |-> << >>]

\* a block of memory: its name and the string in it
NullBlock == [blk |-> "NULL", str |-> << >>]

\* imap_utf_decode is not called
UtfIdle ==
  /\ Charset = "NULL"
  /\ unicode = FALSE
  /\ wpc = "idle"
  /\ sPtr = NullBlock
  /\ tPtr = NullBlock
  /\ freed = { }
  /\ crc = << >>

\* there is no mailbox
FlagIdle ==
  /\ ctx = [deleted |-> 0]
  /\ hdrs = << >>
  /\ FlagSafe = FALSE
  /\ calls = 0
  /\ allUpd = TRUE

\* mutt_expand_aliases is not called
AliasIdle ==
  /\ Aliases = << >>
  /\ UseDomain = FALSE
  /\ apc = "idle"
  /\ frames = << >>
  /\ expn = << >>
  /\ ret = << >>
  /\ expanded = << >>

\* no function of url.c is called
UrlIdle ==
  /\ fn = "none"
  /\ upc = "done"
  /\ text = << >>
  /\ size = 0
  /\ flags = { }
  /\ url = NoUrl
  /\ url2 = NoUrl
  /\ rc = 0
  /\ enc = << >>
  /\ dec = << >>
  /\ dest = << >>
  /\ dest2 = << >>
  /\ oob = FALSE
  /\ parse = NoParse

Init ==
  /\ UrlIdle
  /\ UtfIdle
  /\ FlagIdle
  /\ AliasIdle
  /\ mode \in {"u7", "u8", "raw"}
  /\ charSigned \in BOOLEAN
  /\ input \in InputsOf(mode)
  /\ stage = 1
  /\ pc = (IF mode = "u7" THEN "dec" ELSE "enc")
  /\ src = input
  /\ off = 0
  /\ ulen = Len(input)
  /\ p = << >>
  /\ ch = 0
  /\ k = 0
  /\ b = 0
  /\ base64 = FALSE
  /\ res1 = NullResult
  /\ res2 = NullResult
  /\ buf = "malloc"
  /\ outPtr = "NULL"
  /\ outLen = 0

\* the string a successful call returned, without its terminating NUL
Text(r) == SubSeq(r.buf, 1, Len(r.buf) - 1)

\* the first function succeeded: the other one is called with its result
CallSecond ==
  /\ stage = 1 /\ pc = "ret" /\ res1.ok
  /\ stage' = 2
  /\ pc' = (IF mode = "u7" THEN "enc" ELSE "dec")
  /\ src' = Text(res1)
  /\ off' = 0
  /\ ulen' = Len(Text(res1))
  /\ p' = << >>
  /\ b' = (IF mode = "u7" THEN 0 ELSE b)
  /\ k' = (IF mode = "u7" THEN 0 ELSE k)
  /\ base64' = FALSE
  /\ buf' = "malloc"
  /\ UNCHANGED <<mode, charSigned, input, ch, res1, res2, outPtr, outLen>>
  /\ UNCHANGED <<urlVars, utfVars, flagVars, aliasVars>>

Next ==
  \/ DecAmpDash
  \/ DecShiftOpen
  \/ DecDigit
  \/ DecBailPrintable
  \/ DecBailExtraBits
  \/ DecBailUnterminated
  \/ DecBailAdjacent
  \/ DecShiftClose
  \/ DecBailNotPrintable
  \/ DecLiteral
  \/ DecFinish
  \/ EncBail
  \/ EncShift
  \/ EncLiteral
  \/ EncFinish
  \/ CallSecond

Spec == Init /\ [][Next]_vars

-----------------------------------------------------------------------------
(* url.c: percent-encoding *)

\* the digits a-f are left out
IsXDigitUpper(c) == c \in (48..57) \cup (65..70)

\* isxdigit((unsigned char) c)
IsXDigit(c) == c \in (48..57) \cup (65..70) \cup (97..102)

\* hexval(c): the value of a hexadecimal digit, -1 for any other character
HexVal(c) ==
  IF c \in 48..57 THEN c - 48
  ELSE IF c \in 65..70 THEN c - 55
  ELSE IF c \in 97..102 THEN c - 87
  ELSE -1

\* s[1] && s[2] && isxdigit(s[1]) && isxdigit(s[2]) && hexval(s[1]) >= 0 &&
\* hexval(s[2]) >= 0, for the '%' at s[i] of a string that ends after s[Len(s)]
EscapeAt(s, i) ==
  IF i + 2 > Len(s) THEN FALSE
  ELSE /\ IsXDigit(s[i + 1]) /\ IsXDigit(s[i + 2])
       /\ HexVal(s[i + 1]) >= 0 /\ HexVal(s[i + 2]) >= 0

\* (hexval(s[1]) << 4) | hexval(s[2])
EscapedByte(s, i) == BitOr(Shl(HexVal(s[i + 1]), 4), HexVal(s[i + 2]))

\* the first '%' of s from s[i] on (Len(s) + 1 when there is none)
NextPct(s, i) ==
  IF \E m \in i..Len(s) : s[m] = 37
    THEN CHOOSE m \in i..Len(s) : s[m] = 37 /\ \A j \in i..(m - 1) : s[j] # 37
    ELSE Len(s) + 1

\* the loop of url_pct_decode from s[i] on, with d the bytes written so far:
\* the value returned, and the bytes at the place of s when it returns.  The
\* bytes before the next '%' are copied as they are
RECURSIVE PctDecodeFrom(_, _, _)
PctDecodeFrom(s, i, d) ==
  LET m == NextPct(s, i)
      c == d \o SubSeq(s, i, m - 1)
  IN IF m > Len(s) THEN [rc |-> 0, str |-> c]
     ELSE IF EscapeAt(s, m)
       THEN PctDecodeFrom(s, m + 3, Append(c, EscapedByte(s, m)))
       ELSE [rc |-> -1, str |-> c \o SubSeq(s, Len(c) + 1, Len(s))]

\* url_pct_decode(s) for a string s
PctDecode(s) == PctDecodeFrom(s, 1, << >>)

\* alph
Alph == << 48, 49, 50, 51, 52, 53, 54, 55, 56, 57, 65, 66, 67, 68, 69, 70 >>

\* strchr("/:&%", c) for a character c other than NUL
NeedsEscape(c) == c \in { 47, 58, 38, 37 }

\* l > 3, with l the size given less one
RoomForEscape(l) == l > 3

\* what one pass through the loop of url_pct_encode writes for the character
\* c, with l the size given less one
EncodeChar(l, c) ==
  IF NeedsEscape(c) /\ RoomForEscape(l)
    THEN << 37, Alph[BitAnd(Shr(c, 4), 15) + 1], Alph[BitAnd(c, 15) + 1] >>
    ELSE << c >>

\* what the loop writes for s[i .. j].  l is never changed in the loop, so a
\* character is written the same way wherever it stands and the loop ends at
\* the end of s only; the string is put together by halves
RECURSIVE PctEncodeFrom(_, _, _, _)
PctEncodeFrom(l, s, i, j) ==
  IF i > j THEN << >>
  ELSE IF i = j THEN EncodeChar(l, s[i])
  ELSE PctEncodeFrom(l, s, i, (i + j) \div 2)
         \o PctEncodeFrom(l, s, (i + j) \div 2 + 1, j)

\* url_pct_encode(dst, l, s) for l > 0: the string written to dst
PctEncode(l, s) == IF l - 1 = 0 THEN << >> ELSE PctEncodeFrom(l - 1, s, 1, Len(s))

-----------------------------------------------------------------------------
(* url.c: url_tostring *)

\* UrlMap, in a build without USE_NOTMUCH: the names "file", "imap", "imaps",
\* "pop", "pops", "news", "snews", "mailto", "smtp", "smtps"
UrlMap ==
  << [name |-> << 102, 105, 108, 101 >>,           value |-> "U_FILE"],
     [name |-> << 105, 109, 97, 112 >>,            value |-> "U_IMAP"],
     [name |-> << 105, 109, 97, 112, 115 >>,       value |-> "U_IMAPS"],
     [name |-> << 112, 111, 112 >>,                value |-> "U_POP"],
     [name |-> << 112, 111, 112, 115 >>,           value |-> "U_POPS"],
     [name |-> << 110, 101, 119, 115 >>,           value |-> "U_NNTP"],
     [name |-> << 115, 110, 101, 119, 115 >>,      value |-> "U_NNTPS"],
     [name |-> << 109, 97, 105, 108, 116, 111 >>,  value |-> "U_MAILTO"],
     [name |-> << 115, 109, 116, 112 >>,           value |-> "U_SMTP"],
     [name |-> << 115, 109, 116, 112, 115 >>,      value |-> "U_SMTPS"] >>

\* mutt_map_get_name(value, UrlMap), for a value the table has
MapGetName(value) ==
  UrlMap[CHOOSE i \in 1..Len(UrlMap) : UrlMap[i].value = value].name

\* sizeof(str), sizeof(p): the macro STRING
SizeofStr == 256

\* the string snprintf(dest, len, ...) leaves in dest for the text it formats,
\* len > 0
Snprintf(n, str) == SubSeq(str, 1, IF Len(str) < n - 1 THEN Len(str) ELSE n - 1)

\* mutt_str_strcat(d, l, str): the string in d afterwards, l > 0
StrCat(d, l, str) == Snprintf(l, d \o str)

\* the digits of n > 0
RECURSIVE Digits(_)
Digits(n) == IF n = 0 THEN << >> ELSE Append(Digits(n \div 10), 48 + (n % 10))

\* "%hu"
Decimal(n) == IF n = 0 THEN << 48 >> ELSE Digits(n)

\* strchr(str, c) finds c in the string
Contains(str, c) == \E i \in 1..Len(str) : str[i] = c

\* the password is written whenever there is one
WithPasswordAlways(fl, u) == u.pass # Null

\* flags & U_DECODE_PASSWD && u->pass
WithPassword(fl, u) == "U_DECODE_PASSWD" \in fl /\ u.pass # Null

\* user@ or user:pass@ as handed to snprintf
UserInfo(fl, u) ==
  IF WithPassword(fl, u)
    THEN PctEncode(SizeofStr, u.user) \o << 58 >> \o PctEncode(SizeofStr, u.pass) \o << 64 >>
    ELSE PctEncode(SizeofStr, u.user) \o << 64 >>

\* u->user && (u->user[0] || !(flags & U_PATH))
HasUserInfo(fl, u) == u.user # Null /\ (u.user # << >> \/ "U_PATH" \notin fl)

\* a host with a colon is written without brackets
HostTextPlain(u) == u.host

\* [host] for a host with a colon, host otherwise
HostText(u) ==
  IF Contains(u.host, 58) THEN << 91 >> \o u.host \o << 93 >> ELSE u.host

\* ":port/" or "/"
PortText(u) ==
  IF u.port # 0 THEN << 58 >> \o Decimal(u.port) \o << 47 >> ELSE << 47 >>

\* url_pct_encode writes beyond str or p
BufferOverrun(fl, u) ==
  /\ u.scheme # "U_UNKNOWN" /\ u.host # Null /\ HasUserInfo(fl, u)
  /\ \/ Len(PctEncode(SizeofStr, u.user)) + 1 > SizeofStr
     \/ WithPassword(fl, u) /\ Len(PctEncode(SizeofStr, u.pass)) + 1 > SizeofStr

\* url_tostring(u, dest, n, fl) for n > 0 and dest holding old: the value
\* returned and the string in dest
UrlToString(u, n, fl, old) ==
  IF u.scheme = "U_UNKNOWN" THEN [rc |-> -1, dest |-> old]
  ELSE
    LET d0 == Snprintf(n, MapGetName(u.scheme) \o << 58 >>)
    IN IF u.host = Null
         THEN [rc |-> 0,
               dest |-> IF u.path # Null THEN StrCat(d0, n, u.path) ELSE d0]
         ELSE
           LET d1 == IF "U_PATH" \notin fl THEN StrCat(d0, n, << 47, 47 >>) ELSE d0
               n1 == n - Len(d1)
               d2 == IF HasUserInfo(fl, u) THEN Snprintf(n1, UserInfo(fl, u)) ELSE << >>
               n2 == n1 - Len(d2)
               d3 == Snprintf(n2, HostText(u))
               n3 == n2 - Len(d3)
               d4 == Snprintf(n3, PortText(u))
               d5 == IF u.path # Null THEN StrCat(d4, n3, u.path) ELSE d4
           IN [rc |-> 0, dest |-> d1 \o d2 \o d3 \o d5]

-----------------------------------------------------------------------------
(* url.c: url_parse *)

\* The string handed to url_parse is a buffer of bytes that ends with a NUL; a
\* char * is a place in it, from 1, and 0 is the null pointer.

\* the place of the NUL that ends the string at place i
StrEnd(bf, i) ==
  CHOOSE m \in i..Len(bf) : bf[m] = 0 /\ \A j \in i..(m - 1) : bf[j] # 0

\* the string at place i
CStrAt(bf, i) == SubSeq(bf, i, StrEnd(bf, i) - 1)

\* strchr(i, c) for a character c other than NUL
StrChr(bf, i, c) ==
  LET e == StrEnd(bf, i)
  IN IF \E m \in i..(e - 1) : bf[m] = c
       THEN CHOOSE m \in i..(e - 1) : bf[m] = c /\ \A j \in i..(m - 1) : bf[j] # c
       ELSE 0

\* strrchr(i, c) for a character c other than NUL
StrRChr(bf, i, c) ==
  LET e == StrEnd(bf, i)
  IN IF \E m \in i..(e - 1) : bf[m] = c
       THEN CHOOSE m \in i..(e - 1) : bf[m] = c /\ \A j \in (m + 1)..(e - 1) : bf[j] # c
       ELSE 0

\* *i = c
Poke(bf, i, c) == [bf EXCEPT ![i] = c]

\* url_pct_decode(i), which writes over the string it reads and ends what it
\* wrote with a NUL when it returns 0
PctDecodeAt(bf, i) ==
  LET r == PctDecode(CStrAt(bf, i))
      w == IF r.rc = 0 THEN Append(r.str, 0) ELSE r.str
  IN [rc |-> r.rc,
      bf |-> [m \in 1..Len(bf) |->
                IF m >= i /\ m < i + Len(w) THEN w[m - i + 1] ELSE bf[m]]]

\* tolower
ToLower(c) == IF c \in 65..90 THEN c + 32 ELSE c

\* mutt_map_get_value(name, UrlMap), with U_UNKNOWN for the -1 of a name the
\* table does not have
MapGetValue(name) ==
  IF \E i \in 1..Len(UrlMap) : UrlMap[i].name = name
    THEN UrlMap[CHOOSE i \in 1..Len(UrlMap) : UrlMap[i].name = name].value
    ELSE "U_UNKNOWN"

\* url_check_scheme(s) for the string at the start of the buffer
UrlCheckScheme(bf) ==
  LET t == StrChr(bf, 1, 58)
  IN IF t = 0 THEN "U_UNKNOWN"
     ELSE IF t - 1 >= SizeofStr - 1 THEN "U_UNKNOWN"
     ELSE MapGetValue([i \in 1..(t - 1) |-> ToLower(bf[i])])

\* the bytes strtol skips
IsSpace(c) == c = 32 \/ c \in 9..13

\* the number written with the digits of str, at most nine of them
RECURSIVE DecimalValue(_)
DecimalValue(str) ==
  IF str = << >> THEN 0
  ELSE 10 * DecimalValue(SubSeq(str, 1, Len(str) - 1)) + (str[Len(str)] - 48)

\* mutt_str_atoi(str, &num) for a string of at most nine digits: 0 and the
\* number for an empty string and for a number in base ten with nothing after
\* it, -1 otherwise
Atoi(str) ==
  IF str = << >> THEN [rc |-> 0, num |-> 0]
  ELSE
    LET n == Cardinality({ i \in 1..Len(str) : \A j \in 1..i : IsSpace(str[j]) })
        t == SubSeq(str, n + 1, Len(str))
        signed == t # << >> /\ t[1] \in { 43, 45 }
        d == IF signed THEN Tail(t) ELSE t
    IN IF d = << >> \/ \E i \in 1..Len(d) : d[i] \notin 48..57
         THEN [rc |-> -1, num |-> 0]
         ELSE [rc |-> 0,
               num |-> IF signed /\ t[1] = 45 THEN 0 - DecimalValue(d)
                       ELSE DecimalValue(d)]

\* url_parse at its entry
ParseStart(str) == [NoParse EXCEPT !.at = "scheme", !.bf = Append(str, 0)]

\* err: url_free empties the list of query strings
Err(st) == [st EXCEPT !.at = "ret", !.rc = -1, !.query = << >>]

\* the scheme, and the return for a string with no "//" after the ':'
SchemeStage(st) ==
  LET sc == UrlCheckScheme(st.bf)
      s1 == StrChr(st.bf, 1, 58) + 1
      slashes == IF st.bf[s1] # 47 THEN FALSE ELSE st.bf[s1 + 1] = 47
      d == PctDecodeAt(st.bf, s1)
  IN IF sc = "U_UNKNOWN" THEN [st EXCEPT !.at = "ret", !.rc = -1]
     ELSE IF ~slashes
       THEN [st EXCEPT !.at = "ret", !.rc = d.rc, !.bf = d.bf, !.scheme = sc,
                       !.sp = s1, !.path = s1]
       ELSE [st EXCEPT !.at = "query", !.scheme = sc, !.sp = s1 + 2]

\* parse_query_string(u, i), with qs the list so far: the value returned, the
\* buffer and the list
RECURSIVE ParseQueryString(_, _, _)
ParseQueryString(bf, i, qs) ==
  IF bf[i] = 0 THEN [rc |-> 0, bf |-> bf, qs |-> qs]
  ELSE
    LET amp == StrChr(bf, i, 38)
        b1 == IF amp # 0 THEN Poke(bf, amp, 0) ELSE bf
        eq == StrChr(b1, i, 61)
        b2 == IF eq # 0 THEN Poke(b1, eq, 0) ELSE b1
        dv == IF eq # 0 THEN PctDecodeAt(b2, eq + 1) ELSE [rc |-> 0, bf |-> b2]
        dn == PctDecodeAt(dv.bf, i)
        q2 == Append(qs, [name |-> i, value |-> IF eq # 0 THEN eq + 1 ELSE 0])
    IN IF dv.rc < 0 THEN [rc |-> -1, bf |-> dv.bf, qs |-> qs]
       ELSE IF dn.rc < 0 THEN [rc |-> -1, bf |-> dn.bf, qs |-> qs]
       ELSE IF amp = 0 THEN [rc |-> 0, bf |-> dn.bf, qs |-> q2]
       ELSE ParseQueryString(dn.bf, amp + 1, q2)

\* the query of a mailto URL
QueryStage(st) ==
  LET t == IF st.scheme = "U_MAILTO" THEN StrRChr(st.bf, st.sp, 63) ELSE 0
      r == ParseQueryString(Poke(st.bf, t, 0), t + 1, << >>)
  IN IF t = 0 THEN [st EXCEPT !.at = "path"]
     ELSE IF r.rc < 0 THEN Err([st EXCEPT !.bf = r.bf])
     ELSE [st EXCEPT !.at = "path", !.bf = r.bf, !.query = r.qs]

\* the path
PathStage(st) ==
  LET t == StrChr(st.bf, st.sp, 47)
      d == PctDecodeAt(Poke(st.bf, t, 0), t + 1)
  IN IF t = 0 THEN [st EXCEPT !.at = "user"]
     ELSE IF d.rc < 0 THEN Err([st EXCEPT !.bf = d.bf, !.path = t + 1])
     ELSE [st EXCEPT !.at = "user", !.bf = d.bf, !.path = t + 1]

\* user and password
UserStage(st) ==
  LET t == StrRChr(st.bf, st.sp, 64)
      b1 == Poke(st.bf, t, 0)
      c == StrChr(b1, st.sp, 58)
      b2 == IF c # 0 THEN Poke(b1, c, 0) ELSE b1
      dp == IF c # 0 THEN PctDecodeAt(b2, c + 1) ELSE [rc |-> 0, bf |-> b2]
      du == PctDecodeAt(dp.bf, st.sp)
      pw == IF c # 0 THEN c + 1 ELSE 0
  IN IF t = 0 THEN [st EXCEPT !.at = "bracket"]
     ELSE IF dp.rc < 0 THEN Err([st EXCEPT !.bf = dp.bf, !.pass = pw])
     ELSE IF du.rc < 0
       THEN Err([st EXCEPT !.bf = du.bf, !.pass = pw, !.user = st.sp])
     ELSE [st EXCEPT !.at = "bracket", !.bf = du.bf, !.pass = pw,
                     !.user = st.sp, !.sp = t + 1]

\* the brackets of an IPv6 literal address
BracketStage(st) ==
  LET t == IF st.bf[st.sp] = 91 THEN StrChr(st.bf, st.sp, 93) ELSE 0
  IN IF t # 0
       THEN [st EXCEPT !.at = "port", !.bf = Poke(st.bf, t, 0),
                       !.sp = st.sp + 1, !.tp = t + 1]
       ELSE [st EXCEPT !.at = "port", !.tp = st.sp]

\* a port has to fit a short
BadPortShort(a) == a.rc < 0 \/ a.num < 0 \/ a.num > \h7fff

\* a negative port is let through
BadPortUnsigned(a) == a.rc < 0 \/ a.num > \hffff

\* mutt_str_atoi(p, &num) < 0 || num < 0 || num > 0xffff
BadPort(a) == a.rc < 0 \/ a.num < 0 \/ a.num > \hffff

\* the port
PortStage(st) ==
  LET c == StrChr(st.bf, st.tp, 58)
      b1 == Poke(st.bf, c, 0)
      a == Atoi(CStrAt(b1, c + 1))
  IN IF c = 0 THEN [st EXCEPT !.at = "host"]
     ELSE IF BadPort(a)
       THEN Err([st EXCEPT !.bf = b1])
     ELSE [st EXCEPT !.at = "host", !.bf = b1, !.port = a.num]

\* the host, or the '/' put back at the start of an absolute path
HostStage(st) ==
  LET d == PctDecodeAt(st.bf, st.sp)
  IN IF CStrAt(st.bf, st.sp) # << >>
       THEN IF d.rc < 0 THEN Err([st EXCEPT !.bf = d.bf, !.host = st.sp])
            ELSE [st EXCEPT !.at = "ret", !.bf = d.bf, !.host = st.sp]
       ELSE IF st.path # 0
         THEN [st EXCEPT !.at = "ret", !.path = st.sp,
                         !.bf = Poke(st.bf, st.sp, 47)]
         ELSE [st EXCEPT !.at = "ret"]

\* the string at place i of the buffer, for a field of *u
Field(st, i) == IF i = 0 THEN Null ELSE CStrAt(st.bf, i)

\* *u with its strings read in the buffer
UrlOf(st) ==
  [scheme |-> st.scheme, user |-> Field(st, st.user), pass |-> Field(st, st.pass),
   host |-> Field(st, st.host), port |-> st.port, path |-> Field(st, st.path),
   query |-> [j \in 1..Len(st.query) |->
                [name |-> Field(st, st.query[j].name),
                 value |-> Field(st, st.query[j].value)]]]

-----------------------------------------------------------------------------
(* url.c: the calls *)

\* the codec is not run
CodecIdle ==
  /\ mode = "none"
  /\ charSigned = FALSE
  /\ input = << >>
  /\ stage = 0
  /\ pc = "ret"
  /\ src = << >>
  /\ off = 0
  /\ ulen = 0
  /\ p = << >>
  /\ ch = 0
  /\ k = 0
  /\ b = 0
  /\ base64 = FALSE
  /\ res1 = NullResult
  /\ res2 = NullResult
  /\ buf = "NULL"
  /\ outPtr = "NULL"
  /\ outLen = 0

\* '/', ':', '&', '%', 'a', '2', 'F' and a byte with the high bit
PctAlphabet == { 47, 58, 38, 37, 97, 50, 70, 233 }

\* the sizes of dst: from 1 to one more than the longest escaped form and its NUL
PctSizes == 1..(3 * MaxPctLen + 2)

\* '%', hexadecimal digits of each kind, 'g', '/' and '@'
DecAlphabet == { 37, 48, 50, 70, 102, 103, 47, 64 }

\* url_pct_encode(dst, size, text), then url_pct_decode(dst)
InitPctEncode ==
  /\ fn = "url_pct_encode"
  /\ text \in SeqsUpTo(PctAlphabet, MaxPctLen)
  /\ size \in PctSizes
  /\ flags = { } /\ url = NoUrl /\ url2 = NoUrl
  /\ parse = NoParse

\* url_pct_decode(text)
InitPctDecode ==
  /\ fn = "url_pct_decode"
  /\ text \in SeqsUpTo(DecAlphabet, MaxDecLen)
  /\ size = 0 /\ flags = { } /\ url = NoUrl /\ url2 = NoUrl
  /\ parse = NoParse

\* a user that does not fit str
LongUser == [i \in 1..SizeofStr |-> 97]

\* no user, "", "u", "a/b" and the long one
Users == { Null, << >>, << 117 >>, << 97, 47, 98 >>, LongUser }

\* no password, "", "p", "s:%"
Passes == { Null, << >>, << 112 >>, << 115, 58, 37 >> }

\* no host, "h", "::1"
Hosts == { Null, << 104 >>, << 58, 58, 49 >> }

\* no path, "x"
Paths == { Null, << 120 >> }

FormatUrls ==
  [scheme : {"U_IMAP", "U_NNTP", "U_UNKNOWN"}, user : Users, pass : Passes,
   host : Hosts, port : {0, 143, 65535}, path : Paths, query : {<< >>}]

\* url_tostring(&url, dest, size, flags), then the same for url2, which
\* differs from url in pass alone
InitToString ==
  /\ fn = "url_tostring"
  /\ text = << >>
  /\ url \in FormatUrls
  /\ \E q \in Passes : q # url.pass /\ url2 = [url EXCEPT !.pass = q]
  /\ flags \in SUBSET {"U_DECODE_PASSWD", "U_PATH"}
  /\ size \in {1, 16, 400}
  /\ parse = NoParse

\* the names of UrlMap, "nntp", "nntps" and "IMAP"
ParseNames ==
  { UrlMap[i].name : i \in 1..Len(UrlMap) }
    \cup { << 110, 110, 116, 112 >>, << 110, 110, 116, 112, 115 >>,
           << 73, 77, 65, 80 >> }

\* nothing, "u@", "u:p@", "a%2Fb@", "u%@" and the long user with its '@'
ParseUserInfos ==
  { << >>, << 117, 64 >>, << 117, 58, 112, 64 >>, << 97, 37, 50, 70, 98, 64 >>,
    << 117, 37, 64 >>, LongUser \o << 64 >> }

\* "h", "[::1]", nothing, "h%41", "[abc", "[::1"
ParseHosts ==
  { << 104 >>, << 91, 58, 58, 49, 93 >>, << >>, << 104, 37, 52, 49 >>,
    << 91, 97, 98, 99 >>, << 91, 58, 58, 49 >> }

\* nothing, ":143", ":65535", ":65536", ":", ":1x", ":-1", ":0", ":+7"
ParsePorts ==
  { << >>, << 58, 49, 52, 51 >>, << 58, 54, 53, 53, 51, 53 >>,
    << 58, 54, 53, 53, 51, 54 >>, << 58 >>, << 58, 49, 120 >>,
    << 58, 45, 49 >>, << 58, 48 >>, << 58, 43, 55 >> }

\* nothing, "/", "/x", "/a%2Fb?k=v%26&n", "/?%"
ParsePaths ==
  { << >>, << 47 >>, << 47, 120 >>,
    << 47, 97, 37, 50, 70, 98, 63, 107, 61, 118, 37, 50, 54, 38, 110 >>,
    << 47, 63, 37 >> }

\* name "://" userinfo host port path, name ":x", name ":%", and name alone
ParseTexts ==
  { n \o << 58, 47, 47 >> \o ui \o h \o pt \o pa :
      n \in ParseNames, ui \in ParseUserInfos, h \in ParseHosts,
      pt \in ParsePorts, pa \in ParsePaths }
    \cup { n \o << 58, 120 >> : n \in ParseNames }
    \cup { n \o << 58, 37 >> : n \in ParseNames }
    \cup ParseNames

\* url_parse(&url, text) on a copy of text, then url_tostring(&url, dest, size, 0)
InitParse ==
  /\ fn = "url_parse"
  /\ text \in ParseTexts
  /\ size = 400
  /\ flags = { } /\ url = NoUrl /\ url2 = NoUrl
  /\ parse = ParseStart(text)

InitUrl ==
  /\ CodecIdle
  /\ UtfIdle
  /\ FlagIdle
  /\ AliasIdle
  /\ \/ InitPctEncode
     \/ InitPctDecode
     \/ InitToString
     \/ InitParse
  /\ upc = "call"
  /\ rc = 0
  /\ enc = << >>
  /\ dec = << >>
  /\ dest = << >>
  /\ dest2 = << >>
  /\ oob = FALSE

\* url_pct_encode returns, all it wrote being inside dst[0 .. size-1]
PctEncodeCall ==
  /\ fn = "url_pct_encode" /\ upc = "call"
  /\ Len(PctEncode(size, text)) + 1 <= size
  /\ enc' = PctEncode(size, text)
  /\ upc' = "second"
  /\ UNCHANGED <<fn, text, size, flags, url, url2, rc, dec, dest, dest2, oob, parse>>
  /\ UNCHANGED <<codecVars, utfVars, flagVars, aliasVars>>

\* url_pct_encode writes beyond dst[size-1]: the run ends there, or goes on
\* with the string as written
PctEncodeOverflow ==
  /\ fn = "url_pct_encode" /\ upc = "call"
  /\ Len(PctEncode(size, text)) + 1 > size
  /\ oob' = TRUE
  /\ \/ upc' = "crash" /\ UNCHANGED enc
     \/ upc' = "second" /\ enc' = PctEncode(size, text)
  /\ UNCHANGED <<fn, text, size, flags, url, url2, rc, dec, dest, dest2, parse>>
  /\ UNCHANGED <<codecVars, utfVars, flagVars, aliasVars>>

\* the string url_pct_decode is called with
DecodeArgument == IF fn = "url_pct_decode" THEN text ELSE enc

\* url_pct_decode(text), or url_pct_decode of what url_pct_encode wrote
PctDecodeCall ==
  /\ \/ fn = "url_pct_decode" /\ upc = "call"
     \/ fn = "url_pct_encode" /\ upc = "second"
  /\ rc' = PctDecode(DecodeArgument).rc
  /\ dec' = PctDecode(DecodeArgument).str
  /\ upc' = "done"
  /\ UNCHANGED <<fn, text, size, flags, url, url2, enc, dest, dest2, oob, parse>>
  /\ UNCHANGED <<codecVars, utfVars, flagVars, aliasVars>>

\* url_parse is at the place named
ParseAt(place) == fn = "url_parse" /\ upc = "call" /\ parse.at = place

\* url_parse: url_check_scheme, and the URL with no "//"
UrlParseScheme ==
  /\ ParseAt("scheme")
  /\ parse' = SchemeStage(parse)
  /\ UNCHANGED <<fn, upc, text, size, flags, url, url2, rc, enc, dec, dest, dest2, oob>>
  /\ UNCHANGED <<codecVars, utfVars, flagVars, aliasVars>>

\* url_parse: the query of a mailto URL
UrlParseQuery ==
  /\ ParseAt("query")
  /\ parse' = QueryStage(parse)
  /\ UNCHANGED <<fn, upc, text, size, flags, url, url2, rc, enc, dec, dest, dest2, oob>>
  /\ UNCHANGED <<codecVars, utfVars, flagVars, aliasVars>>

\* url_parse: the path
UrlParsePath ==
  /\ ParseAt("path")
  /\ parse' = PathStage(parse)
  /\ UNCHANGED <<fn, upc, text, size, flags, url, url2, rc, enc, dec, dest, dest2, oob>>
  /\ UNCHANGED <<codecVars, utfVars, flagVars, aliasVars>>

\* url_parse: user and password
UrlParseUser ==
  /\ ParseAt("user")
  /\ parse' = UserStage(parse)
  /\ UNCHANGED <<fn, upc, text, size, flags, url, url2, rc, enc, dec, dest, dest2, oob>>
  /\ UNCHANGED <<codecVars, utfVars, flagVars, aliasVars>>

\* url_parse: the brackets of an IPv6 literal address
UrlParseBracket ==
  /\ ParseAt("bracket")
  /\ parse' = BracketStage(parse)
  /\ UNCHANGED <<fn, upc, text, size, flags, url, url2, rc, enc, dec, dest, dest2, oob>>
  /\ UNCHANGED <<codecVars, utfVars, flagVars, aliasVars>>

\* url_parse: the port
UrlParsePort ==
  /\ ParseAt("port")
  /\ parse' = PortStage(parse)
  /\ UNCHANGED <<fn, upc, text, size, flags, url, url2, rc, enc, dec, dest, dest2, oob>>
  /\ UNCHANGED <<codecVars, utfVars, flagVars, aliasVars>>

\* url_parse: the host
UrlParseHost ==
  /\ ParseAt("host")
  /\ parse' = HostStage(parse)
  /\ UNCHANGED <<fn, upc, text, size, flags, url, url2, rc, enc, dec, dest, dest2, oob>>
  /\ UNCHANGED <<codecVars, utfVars, flagVars, aliasVars>>

\* url_parse returns
UrlParseReturn ==
  /\ ParseAt("ret")
  /\ rc' = parse.rc
  /\ url' = UrlOf(parse)
  /\ upc' = (IF parse.rc = 0 THEN "second" ELSE "done")
  /\ UNCHANGED <<fn, text, size, flags, url2, enc, dec, dest, dest2, oob, parse>>
  /\ UNCHANGED <<codecVars, utfVars, flagVars, aliasVars>>

\* url_tostring is to be called for url
FirstToString ==
  \/ fn = "url_tostring" /\ upc = "call"
  \/ fn = "url_parse" /\ upc = "second" /\ rc = 0

\* url_tostring is to be called for url2
SecondToString == fn = "url_tostring" /\ upc = "second"

\* the call of url_tostring has returned
ToStringReturns ==
  IF FirstToString
    THEN /\ dest' = UrlToString(url, size, flags, dest).dest
         /\ rc' = UrlToString(url, size, flags, dest).rc
         /\ upc' = (IF fn = "url_tostring" THEN "second" ELSE "done")
         /\ UNCHANGED dest2
    ELSE /\ dest2' = UrlToString(url2, size, flags, dest2).dest
         /\ rc' = UrlToString(url2, size, flags, dest2).rc
         /\ upc' = "done"
         /\ UNCHANGED dest

\* the struct Url of the call to be made
UrlGiven == IF SecondToString THEN url2 ELSE url

\* url_tostring returns, all it wrote being inside the buffers
UrlToStringCall ==
  /\ FirstToString \/ SecondToString
  /\ ~BufferOverrun(flags, UrlGiven)
  /\ ToStringReturns
  /\ UNCHANGED <<fn, text, size, flags, url, url2, enc, dec, oob, parse>>
  /\ UNCHANGED <<codecVars, utfVars, flagVars, aliasVars>>

\* url_pct_encode writes beyond str or p of url_tostring: the run ends there,
\* or goes on with the strings as written
UrlToStringOverflow ==
  /\ FirstToString \/ SecondToString
  /\ BufferOverrun(flags, UrlGiven)
  /\ oob' = TRUE
  /\ \/ upc' = "crash" /\ UNCHANGED <<rc, dest, dest2>>
     \/ ToStringReturns
  /\ UNCHANGED <<fn, text, size, flags, url, url2, enc, dec, parse>>
  /\ UNCHANGED <<codecVars, utfVars, flagVars, aliasVars>>

NextUrl ==
  \/ PctEncodeCall
  \/ PctEncodeOverflow
  \/ PctDecodeCall
  \/ UrlParseScheme
  \/ UrlParseQuery
  \/ UrlParsePath
  \/ UrlParseUser
  \/ UrlParseBracket
  \/ UrlParsePort
  \/ UrlParseHost
  \/ UrlParseReturn
  \/ UrlToStringCall
  \/ UrlToStringOverflow

SpecUrl == InitUrl /\ [][NextUrl]_vars

-----------------------------------------------------------------------------
(* Properties *)

\* the first call has returned
Returned1 == stage = 2 \/ pc = "ret"

\* the run is over
Finished == pc = "ret" /\ (stage = 2 \/ ~res1.ok)

Range(s) == { s[i] : i \in 1..Len(s) }

\* C1: round trip.  For every UTF-8 string of code points up to U+FFFF,
\* utf8_to_utf7 succeeds, utf7_to_utf8 of its result succeeds, and the bytes
\* decoded are the input.
RoundTrip ==
  (mode = "u8" /\ Finished) =>
    /\ res1.ok
    /\ res2.ok
    /\ Text(res2) = input

\* a round trip of a text with a literal '&', a 3-byte code point and a shift
\* sequence of at least three units
RoundTripWitness ==
  /\ mode = "u8" /\ Finished /\ res2.ok
  /\ 38 \in Range(input)
  /\ \E i \in 1..Len(input) : input[i] >= \he0
  /\ \E i \in 1..Len(res1.buf) - 9 :
       /\ res1.buf[i] = 38
       /\ \A j \in 1..8 : Index64uAt(res1.buf[i + j]) # -1

\* C2: wire canonicality.  For every wire string utf7_to_utf8 accepts,
\* utf8_to_utf7 of the decoded bytes succeeds and returns that wire string.
WireCanonical ==
  (mode = "u7" /\ Finished /\ res1.ok) =>
    /\ res2.ok
    /\ Text(res2) = input

\* an accepted wire string with "&-", a literal and a shift sequence of two units
WireCanonicalWitness ==
  /\ mode = "u7" /\ Finished /\ res1.ok /\ res2.ok
  /\ \E i \in 1..Len(input) - 1 : input[i] = 38 /\ input[i + 1] = 45
  /\ \E i \in 1..Len(input) - 7 :
       /\ input[i] = 38
       /\ \A j \in 1..6 : Index64uAt(input[i + j]) # -1
       /\ input[i + 7] = 45

-----------------------------------------------------------------------------
(* The wire format, read off the input alone *)

\* a digit of the modified Base64 alphabet: A-Z, a-z, 0-9, '+', ','
IsDigit(c) == c \in (65..90) \cup (97..122) \cup (48..57) \cup {43, 44}

\* its value
DigitValue(c) ==
  IF c \in 65..90 THEN c - 65
  ELSE IF c \in 97..122 THEN c - 97 + 26
  ELSE IF c \in 48..57 THEN c - 48 + 52
  ELSE IF c = 43 THEN 62
  ELSE 63

\* the places of the '&' that are not the first byte of "&-"
ShiftStarts(w) ==
  { i \in 1..Len(w) : w[i] = 38 /\ (i = Len(w) \/ w[i + 1] # 45) }

\* the first place from j on that holds no digit (Len(w) + 1 when there is none)
RECURSIVE RunEnd(_, _)
RunEnd(w, j) ==
  IF j > Len(w) THEN j
  ELSE IF IsDigit(w[j]) THEN RunEnd(w, j + 1)
  ELSE j

\* the number of digits that follow the '&' at place i
DigitCount(w, i) == RunEnd(w, i + 1) - i - 1

\* bit t (from 0, most significant first) of the digits that follow the '&' at i
RunBit(w, i, t) == (DigitValue(w[i + 1 + (t \div 6)]) \div Pow2(5 - (t % 6))) % 2

\* the value of the n bits from bit t on
RECURSIVE RunBits(_, _, _, _)
RunBits(w, i, t, n) ==
  IF n = 0 THEN 0
  ELSE RunBit(w, i, t) * Pow2(n - 1) + RunBits(w, i, t + 1, n - 1)

\* the number of complete 16-bit units in the digits that follow the '&' at i
UnitCount(w, i) == (6 * DigitCount(w, i)) \div 16

\* unit u (from 1) of them
UnitAt(w, i, u) == RunBits(w, i, 16 * (u - 1), 16)

\* the bits left over after the last complete unit: how many, and their value
LeftoverCount(w, i) == 6 * DigitCount(w, i) - 16 * UnitCount(w, i)
LeftoverValue(w, i) == RunBits(w, i, 16 * UnitCount(w, i), LeftoverCount(w, i))

\* the '-' closing a shift sequence is followed by '&' and a byte other than '-'
HasAdjacentSections(w) ==
  \E i \in ShiftStarts(w) :
    LET j == RunEnd(w, i + 1)
    IN /\ j + 2 <= Len(w)
       /\ w[j] = 45
       /\ w[j + 1] = 38
       /\ w[j + 2] # 45

\* C3: adjacent shift sequences are rejected.  utf7_to_utf8 fails on every wire
\* string in which the '-' closing a shift sequence is followed by '&' and a
\* byte other than '-'; "&AMAAwA-" and "&AMA-&-" are accepted.
AdjacentRejected ==
  (mode = "u7" /\ Returned1) =>
    /\ HasAdjacentSections(input) => ~res1.ok
    /\ input = << 38, 65, 77, 65, 65, 119, 65, 45 >> =>
         res1 = [ok |-> TRUE, buf |-> << 195, 128, 195, 128, 0 >>]
    /\ input = << 38, 65, 77, 65, 45, 38, 45 >> =>
         res1 = [ok |-> TRUE, buf |-> << 195, 128, 38, 0 >>]

\* "&AMA-&AMA-" has failed at the '-' of its first sequence
AdjacentRejectedWitness ==
  /\ mode = "u7" /\ stage = 1 /\ pc = "ret" /\ ~res1.ok
  /\ input = << 38, 65, 77, 65, 45, 38, 65, 77, 65, 45 >>
  /\ off = 4
  /\ p = << 195, 128 >>

\* some complete unit of some shift sequence is a printable character
HasPrintableUnit(w) ==
  \E i \in ShiftStarts(w) :
    \E u \in 1..UnitCount(w, i) : UnitAt(w, i, u) \in \h20..\h7e

\* "&" d1 d2 d3 "-" with one unit and no bit left over
OneUnitWire(w) ==
  /\ Len(w) = 5
  /\ w[1] = 38 /\ IsDigit(w[2]) /\ IsDigit(w[3]) /\ IsDigit(w[4]) /\ w[5] = 45
  /\ LeftoverValue(w, 1) = 0

\* C4: printable ASCII is never Base64-encoded.  utf7_to_utf8 fails on every
\* wire string in which a unit of a shift sequence, at any position, is in
\* 0x20..0x7E; a unit below 0x20 and the unit 0x7F are accepted.
PrintableRejected ==
  (mode = "u7" /\ Returned1) =>
    /\ HasPrintableUnit(input) => ~res1.ok
    /\ (OneUnitWire(input) /\ UnitAt(input, 1, 1) \in (0..\h1f) \cup {\h7f}) =>
         res1 = [ok |-> TRUE, buf |-> << UnitAt(input, 1, 1), 0 >>]

\* "&AMAAwAAm-" has failed at its third unit, U+0026, after writing the two before it
PrintableRejectedWitness ==
  /\ mode = "u7" /\ stage = 1 /\ pc = "ret" /\ ~res1.ok
  /\ input = << 38, 65, 77, 65, 65, 119, 65, 65, 109, 45 >>
  /\ HasPrintableUnit(input)
  /\ off = 8
  /\ p = << 195, 128, 195, 128 >>

\* every shift sequence ends in '-' after at least one unit, with fewer than 6
\* bits left over and all of them zero
CanonicalPadding(w) ==
  \A i \in ShiftStarts(w) :
    /\ DigitCount(w, i) % 8 \in {0, 3, 6}
    /\ UnitCount(w, i) >= 1
    /\ LeftoverCount(w, i) < 6
    /\ LeftoverValue(w, i) = 0

\* C5: non-canonical padding is rejected.  utf7_to_utf8 accepts a shift sequence
\* only if the bits left over after its last complete unit are fewer than 6 and
\* all zero, so only with d mod 8 in {0, 3, 6} digits; "&A-", "&AA-" and "&AAB-" fail.
PaddingRejected ==
  (mode = "u7" /\ Returned1) =>
    /\ res1.ok => CanonicalPadding(input)
    /\ input \in { << 38, 65, 45 >>, << 38, 65, 65, 45 >>, << 38, 65, 65, 66, 45 >> } =>
         ~res1.ok

\* a sequence of 8 digits (three units, nothing left over) has been accepted
PaddingRejectedWitness ==
  /\ mode = "u7" /\ Returned1 /\ res1.ok
  /\ \E i \in ShiftStarts(input) : DigitCount(input, i) = 8
  /\ CanonicalPadding(input)

\* an '&' not followed by '-' starts digits that end at the end of the input or
\* at a byte other than '-'
HasUnterminated(w) ==
  \E i \in ShiftStarts(w) :
    LET j == RunEnd(w, i + 1)
    IN IF j > Len(w) THEN TRUE ELSE w[j] # 45

\* C6: unterminated shift sequences are rejected.  utf7_to_utf8 fails whenever
\* the digits after an '&' that is not followed by '-' are ended by the end of
\* the input or by a byte other than '-'.
UnterminatedRejected ==
  (mode = "u7" /\ Returned1 /\ HasUnterminated(input)) => ~res1.ok

\* "&AAA!" has failed at the '!', with no bit left over
UnterminatedRejectedWitness ==
  /\ mode = "u7" /\ stage = 1 /\ pc = "ret" /\ ~res1.ok
  /\ input = << 38, 65, 65, 65, 33 >>
  /\ HasUnterminated(input)
  /\ off = 4
  /\ p = << 0 >>

\* what the running call returns with
Result == IF stage = 1 THEN res1 ELSE res2

\* a step of utf7_to_utf8 at a byte other than '&' outside a shift sequence
\* copies the byte when it is in 0x20..0x7E and fails otherwise
CopyOrFailStep ==
  (pc = "dec" /\ ulen # 0 /\ At(src, off, 0) # 38) =>
    IF At(src, off, 0) \in \h20..\h7e
      THEN /\ p' = Append(p, At(src, off, 0))
           /\ off' = off + 1
           /\ pc' = "dec"
      ELSE /\ pc' = "ret"
           /\ ~Result'.ok

\* C7: outside a shift sequence utf7_to_utf8 copies every byte in 0x20..0x7E
\* other than '&' unchanged and fails on every byte below 0x20 or from 0x7F up,
\* whether char is signed or not.
CopyOrFail == [][CopyOrFailStep]_vars

\* with signed char, '~' has been copied and the byte 0x80 has made the call fail
CopyOrFailWitness ==
  /\ mode = "u7" /\ charSigned /\ stage = 1 /\ pc = "ret" /\ ~res1.ok
  /\ input = << \h7e, \h80 >>
  /\ off = 1
  /\ p = << \h7e >>

\* a step of utf8_to_utf7 at a '&' writes "&-", after the '-' (and the pending
\* digit, if any) that closes an open shift sequence
AmpEncodedStep ==
  (pc = "enc" /\ ulen # 0 /\ At(src, off, 0) = 38) =>
    LET n == Len(p') - Len(p)
        e == Len(p')
    IN /\ n \in 2..4
       /\ SubSeq(p', 1, Len(p)) = p
       /\ p'[e - 1] = 38 /\ p'[e] = 45
       /\ base64 <=> n > 2
       /\ n > 2 => p'[e - 2] = 45
       /\ n = 4 => IsDigit(p'[e - 3])
       /\ ~base64'
       /\ pc' = "enc"
       /\ off' = off + 1

\* a step of utf7_to_utf8 at "&-" outside a shift sequence writes '&'
AmpDecodedStep ==
  (pc = "dec" /\ ulen >= 2 /\ At(src, off, 0) = 38 /\ At(src, off, 1) = 45) =>
    /\ p' = Append(p, 38)
    /\ off' = off + 2
    /\ pc' = "dec"

\* encode("&") = "&-" and decode("&-") = "&"
AmpExamples ==
  /\ (mode = "u8" /\ Returned1 /\ input = << 38 >>) =>
       res1 = [ok |-> TRUE, buf |-> << 38, 45, 0 >>]
  /\ (mode = "u7" /\ Returned1 /\ input = << 38, 45 >>) =>
       res1 = [ok |-> TRUE, buf |-> << 38, 0 >>]

\* C8: ampersand handling.  utf8_to_utf7 writes "&-" for every literal '&',
\* closing any open shift sequence first; utf7_to_utf8 turns every "&-" outside
\* a shift sequence into '&'; encode("&") = "&-" and decode("&-") = "&".
AmpersandHandling ==
  /\ [][AmpEncodedStep /\ AmpDecodedStep]_vars
  /\ []AmpExamples

\* tab and '&' were encoded as "&AAk-&-", and decoding it has just turned the
\* "&-" into '&'
AmpersandHandlingWitness ==
  /\ mode = "u8" /\ stage = 2 /\ pc = "dec"
  /\ input = << 9, 38 >>
  /\ src = << 38, 65, 65, 107, 45, 38, 45 >>
  /\ off = 7
  /\ p = << 9, 38 >>

\* the digit of value v in the modified Base64 alphabet
DigitOf(v) ==
  IF v < 26 THEN 65 + v
  ELSE IF v < 52 THEN 97 + (v - 26)
  ELSE IF v < 62 THEN 48 + (v - 52)
  ELSE IF v = 62 THEN 43
  ELSE 44

\* the tables hold the modified alphabet: value 63 is ',' and '/' is no digit
ModifiedAlphabet ==
  /\ \A v \in 0..63 : B64CharsAt(v) = DigitOf(v) /\ Index64uAt(DigitOf(v)) = v
  /\ \A c \in 0..127 : Index64uAt(c) # -1 => c \in { DigitOf(v) : v \in 0..63 }
  /\ Index64uAt(44) = 63
  /\ Index64uAt(47) = -1

\* C9: the reference vector.  utf7_to_utf8("&Jjo-") is E2 98 BA and
\* utf8_to_utf7 of E2 98 BA is "&Jjo-"; the digits are A-Z, a-z, 0-9, '+', ','
\* with values 0..63, and '/' is no digit.
ReferenceVector ==
  /\ (mode = "u7" /\ Returned1 /\ input = << 38, 74, 106, 111, 45 >>) =>
       res1 = [ok |-> TRUE, buf |-> << \he2, \h98, \hba, 0 >>]
  /\ (mode = "u8" /\ Returned1 /\ input = << \he2, \h98, \hba >>) =>
       res1 = [ok |-> TRUE, buf |-> << 38, 74, 106, 111, 45, 0 >>]
  /\ ModifiedAlphabet

\* U+263A went through both functions and came back
ReferenceVectorWitness ==
  /\ mode = "u8" /\ Finished
  /\ input = << \he2, \h98, \hba >>
  /\ Text(res1) = << 38, 74, 106, 111, 45 >>
  /\ res2 = [ok |-> TRUE, buf |-> << \he2, \h98, \hba, 0 >>]

\* "Ro&- home"
RoHome == << 82, 111, 38, 45, 32, 104, 111, 109, 101 >>

\* C10 as stated: utf7_to_utf8("Ro&- home") fails.
RoHomeFails ==
  (mode = "u7" /\ Returned1 /\ input = RoHome) => ~res1.ok

\* C10, amended: utf7_to_utf8("Ro&- home") succeeds and returns "Ro& home".
RoHomeDecodes ==
  (mode = "u7" /\ Returned1 /\ input = RoHome) =>
    res1 = [ok |-> TRUE, buf |-> << 82, 111, 38, 32, 104, 111, 109, 101, 0 >>]

\* utf7_to_utf8("Ro&- home") has returned
RoHomeWitness ==
  /\ mode = "u7" /\ stage = 1 /\ pc = "ret"
  /\ input = RoHome
  /\ off = 9

-----------------------------------------------------------------------------
(* Well-formed UTF-8, read off the input bytes *)

\* 10xxxxxx
IsContinuation(x) == x >= \h80 /\ x <= \hbf

\* the fixed bits of the lead byte of a sequence of n bytes
LeadMark(n) ==
  CASE n = 1 -> 0 [] n = 2 -> \hc0 [] n = 3 -> \he0
    [] n = 4 -> \hf0 [] n = 5 -> \hf8 [] n = 6 -> \hfc

\* the value of w[i .. i+n-1], a lead byte and n-1 continuation bytes
RECURSIVE PayloadValue(_, _, _, _)
PayloadValue(w, i, n, j) ==
  IF j = 0 THEN w[i] - LeadMark(n)
  ELSE PayloadValue(w, i, n, j - 1) * 64 + (w[i + j] - 128)

SequenceValue(w, i, n) == PayloadValue(w, i, n, n - 1)

\* the least value a sequence of n bytes may carry
LeastValue(n) ==
  CASE n = 1 -> 0 [] n = 2 -> 0 [] n = 3 -> \h800
    [] n = 4 -> \h10000 [] n = 5 -> \h200000 [] n = 6 -> \h4000000

\* a well-formed sequence starts at w[i]
WellFormedAt(w, i) ==
  LET n == SequenceLength(w[i])
  IN IF n = 0 \/ i + n - 1 > Len(w) THEN FALSE
     ELSE IF \E j \in 1..(n - 1) : ~IsContinuation(w[i + j]) THEN FALSE
     ELSE SequenceValue(w, i, n) >= LeastValue(n)

\* w[i ..] is a string of well-formed sequences
RECURSIVE WellFormedFrom(_, _)
WellFormedFrom(w, i) ==
  IF i > Len(w) THEN TRUE
  ELSE IF ~WellFormedAt(w, i) THEN FALSE
  ELSE WellFormedFrom(w, i + SequenceLength(w[i]))

WellFormed(w) == WellFormedFrom(w, 1)

\* C11: utf8_to_utf7 returns NULL on every input with a byte 0x80..0xC1 or
\* 0xFE..0xFF in lead position, a sequence cut short by the end of the input,
\* a byte after the lead that is not 10xxxxxx, or a 3-, 4-, 5- or 6-byte
\* sequence of a value below 0x800, 0x10000, 0x200000, 0x4000000; it succeeds
\* on every string of well-formed sequences of 1 to 6 bytes.
MalformedRejected ==
  (mode \in {"u8", "raw"} /\ Returned1) => (res1.ok <=> WellFormed(input))

\* an overlong 6-byte form (0x3000000) was rejected after two accepted code points
MalformedRejectedWitness ==
  /\ mode = "raw" /\ stage = 1 /\ pc = "ret"
  /\ input = << \h41, \hc3, \h80, \hfc, \h83, \h80, \h80, \h80, \h80,
                \he2, \h98, \hba, \h26 >>
  /\ off = 3
  /\ ~res1.ok

\* the well-formed string w[i ..] with each sequence of 4 to 6 bytes replaced
\* by EF BF BE
RECURSIVE ReplacedFrom(_, _)
ReplacedFrom(w, i) ==
  IF i > Len(w) THEN << >>
  ELSE LET n == SequenceLength(w[i])
       IN (IF n >= 4 THEN << \hef, \hbf, \hbe >> ELSE SubSeq(w, i, i + n - 1))
            \o ReplacedFrom(w, i + n)

Replaced(w) == ReplacedFrom(w, 1)

\* utf8_to_utf7 stands before a well-formed sequence of 4 to 6 bytes
AtLongSequence ==
  /\ pc = "enc" /\ stage = 1 /\ ulen # 0
  /\ WellFormedAt(src, off + 1)
  /\ SequenceLength(src[off + 1]) >= 4

\* the sequence is passed and what is written is what U+FFFE gets written
\* with the same pending bits: '&' if no shift sequence is open, the digits
LongSequenceStep ==
  AtLongSequence =>
    /\ off' = off + SequenceLength(src[off + 1])
    /\ base64'
    /\ p' = p \o (IF base64 THEN << >> ELSE << 38 >>)
              \o UnitDigits(\hfffe, IF base64 THEN b ELSE 0, IF base64 THEN k ELSE 10)
    /\ b' = BitAnd(Shl(\hfffe, -(k' - 16)), \h3f)

\* the round trip of a well-formed string
ReplacedRoundTrip ==
  (mode \in {"u8", "raw"} /\ Finished /\ WellFormed(input)) =>
    /\ res2.ok
    /\ Text(res2) = Replaced(input)

\* C12: at a well-formed sequence of 4, 5 or 6 bytes utf8_to_utf7 writes
\* exactly what it writes for U+FFFE at that position, and utf7_to_utf8 of the
\* result of utf8_to_utf7 is the input with each such sequence replaced by
\* EF BF BE.
ClampedToFFFE == [][LongSequenceStep]_vars /\ []ReplacedRoundTrip

\* U+10000 between U+00C0 and U+263A came back as U+FFFE
ClampedToFFFEWitness ==
  /\ mode = "raw" /\ Finished
  /\ input = << \h41, \hc3, \h80, \hf0, \h90, \h80, \h80, \he2, \h98, \hba, \h26 >>
  /\ res2 = [ok |-> TRUE,
             buf |-> << \h41, \hc3, \h80, \hef, \hbf, \hbe, \he2, \h98, \hba, \h26, 0 >>]

-----------------------------------------------------------------------------
(* What the caller gets *)

\* the last byte of a returned text
LastByte(r) == r.buf[Len(r.buf)]

\* C13: as long as the first call has not returned a text, the caller's
\* pointer and length are as they were before the call, so a call that fails,
\* wherever in the input and after however many bytes written, returns NULL
\* and has written neither; a call that succeeds returns a text that ends
\* with NUL and has set the caller's pointer to the pointer it returns.
AtomicFailure ==
  /\ (stage = 1 /\ ~(pc = "ret" /\ res1.ok)) => (outPtr = "NULL" /\ outLen = 0)
  /\ (stage = 1 /\ pc = "ret" /\ ~res1.ok) => buf = "NULL"
  /\ (stage = 1 /\ pc = "ret" /\ res1.ok) =>
       /\ LastByte(res1) = 0
       /\ buf # "NULL"
       /\ outPtr = buf
  /\ (stage = 2 /\ pc = "ret" /\ ~res2.ok) => buf = "NULL"
  /\ (stage = 2 /\ pc = "ret" /\ res2.ok) => (LastByte(res2) = 0 /\ buf # "NULL")

\* utf8_to_utf7 failed at the third code point, after writing "A&AM"
AtomicFailureWitness ==
  /\ mode = "raw" /\ stage = 1 /\ pc = "ret"
  /\ ~res1.ok
  /\ off = 3
  /\ p = << 65, 38, 65, 77 >>
  /\ outPtr = "NULL" /\ outLen = 0

-----------------------------------------------------------------------------
(* Literal and shifted code points *)

\* 0x20..0x7E
Printable(v) == v >= \h20 /\ v <= \h7e

\* utf8_to_utf7 stands before a well-formed sequence
AtSequence == pc = "enc" /\ ulen # 0 /\ WellFormedAt(src, off + 1)

\* the value of that sequence
ValueHere == SequenceValue(src, off + 1, SequenceLength(src[off + 1]))

\* the bytes a step has added to the output
Added == SubSeq(p', Len(p) + 1, Len(p'))

\* a printable code point is written as itself ('&' with '-' after it) outside
\* a shift sequence; any other one adds only Base64 digits to a shift
\* sequence, after the '&' that opens it
LiteralStep ==
  AtSequence =>
    IF Printable(ValueHere)
      THEN /\ ~base64'
           /\ Len(Added) >= 1
           /\ \/ Added[Len(Added)] = ValueHere /\ ValueHere # 38
              \/ /\ ValueHere = 38 /\ Len(Added) >= 2
                 /\ Added[Len(Added) - 1] = 38 /\ Added[Len(Added)] = 45
      ELSE /\ base64'
           /\ Len(Added) >= 1
           /\ \A i \in 1..Len(Added) :
                IsDigit(Added[i]) \/ (i = 1 /\ ~base64 /\ Added[i] = 38)

\* what utf8_to_utf7 returned in this run, once it has
EncoderResult == IF mode = "u7" THEN res2 ELSE res1

PrintableOutput ==
  EncoderResult.ok =>
    \A i \in 1..Len(Text(EncoderResult)) : Printable(Text(EncoderResult)[i])

\* C14: utf8_to_utf7 writes a code point literally if and only if it is in
\* 0x20..0x7E inclusive, and every byte of a returned text before the
\* terminating NUL is in 0x20..0x7E.
SevenBitPrintable == [][LiteralStep]_vars /\ []PrintableOutput

\* '~' and DEL were encoded: "~&AH8-"
SevenBitPrintableWitness ==
  /\ mode = "u8" /\ stage = 1 /\ pc = "ret"
  /\ input = << \h7e, \h7f >>
  /\ Text(res1) = << 126, 38, 65, 72, 56, 45 >>

-----------------------------------------------------------------------------
(* Percent-encoding, read off the strings *)

\* "%2F", "%3A", "%26", "%25" for '/', ':', '&', '%'; any other byte as it is
EscapeOf(c) ==
  CASE c = 47 -> << 37, 50, 70 >>
    [] c = 58 -> << 37, 51, 65 >>
    [] c = 38 -> << 37, 50, 54 >>
    [] c = 37 -> << 37, 50, 53 >>
    [] OTHER -> << c >>

\* the escaped form of s
Escaped(s) == Flatten([i \in 1..Len(s) |-> EscapeOf(s[i])])

\* the escaped form of s and its NUL take at most n bytes
Fits(s, n) == Len(Escaped(s)) + 1 <= n

\* C19 as stated: when the escaped form of s fits the buffer, url_pct_encode
\* writes s with "%2F", "%3A", "%26", "%25" for '/', ':', '&', '%' and every
\* other byte unchanged, and url_pct_decode of what it wrote returns 0 and
\* gives s back.
EscapeRoundTrip ==
  (fn = "url_pct_encode" /\ Fits(text, size)) =>
    /\ upc \in {"second", "done"} => enc = Escaped(text)
    /\ upc = "done" => (rc = 0 /\ dec = text)

\* the characters 0-9, a-f, A-F
HexDigits ==
  { 48, 49, 50, 51, 52, 53, 54, 55, 56, 57,
    97, 98, 99, 100, 101, 102, 65, 66, 67, 68, 69, 70 }

\* the value of a hexadecimal digit
HexDigitValue(c) ==
  IF c <= 57 THEN c - 48 ELSE IF c <= 70 THEN 10 + (c - 65) ELSE 10 + (c - 97)

\* a well-formed escape starts at s[i]
GoodEscape(s, i) ==
  IF i + 2 > Len(s) THEN FALSE
  ELSE s[i + 1] \in HexDigits /\ s[i + 2] \in HexDigits

\* scanning from s[i] to the right and skipping the two digits of each
\* well-formed escape, a '%' is met that starts no well-formed escape
RECURSIVE MeetsBadEscape(_, _)
MeetsBadEscape(s, i) ==
  IF i > Len(s) THEN FALSE
  ELSE IF s[i] # 37 THEN MeetsBadEscape(s, i + 1)
  ELSE IF GoodEscape(s, i) THEN MeetsBadEscape(s, i + 3)
  ELSE TRUE

\* s[i ..] with each %XX replaced by the byte of that value
RECURSIVE Unescaped(_, _)
Unescaped(s, i) ==
  IF i > Len(s) THEN << >>
  ELSE IF s[i] = 37
    THEN << 16 * HexDigitValue(s[i + 1]) + HexDigitValue(s[i + 2]) >>
           \o Unescaped(s, i + 3)
    ELSE << s[i] >> \o Unescaped(s, i + 1)

\* C20: url_pct_decode returns -1 exactly when the scan from the left, which
\* skips the two digits of each accepted escape, meets a '%' not followed by
\* two hexadecimal digits (a '%' in the last or the last but one place among
\* them); otherwise it returns 0 and leaves the string with each %XX replaced
\* by the byte of that value, which is not longer than the input.
BadEscapeRejected ==
  (fn = "url_pct_decode" /\ upc = "done") =>
    IF MeetsBadEscape(text, 1)
      THEN rc = -1
      ELSE /\ rc = 0
           /\ dec = Unescaped(text, 1)
           /\ Len(dec) <= Len(text)

\* "%2F%": the '%' in the last place, after an accepted escape, was rejected
BadEscapeRejectedWitness ==
  /\ fn = "url_pct_decode" /\ upc = "done"
  /\ text = << 37, 50, 70, 37 >>
  /\ rc = -1

-----------------------------------------------------------------------------
(* url_tostring *)

\* C17 as stated: url_pct_encode writes at most l bytes to dst, the NUL
\* among them, whatever the string, so no byte is written outside dst, outside
\* str and p of url_tostring or outside dest[0 .. len-1], and what does not
\* fit is cut off.
BoundedFormatting ==
  /\ ~oob
  /\ fn = "url_pct_encode" => Len(enc) + 1 <= size
  /\ fn = "url_tostring" => (Len(dest) + 1 <= size /\ Len(dest2) + 1 <= size)

\* t is found in s from s[i] on
InfixAt(t, s, i) ==
  IF i + Len(t) - 1 > Len(s) THEN FALSE
  ELSE SubSeq(s, i, i + Len(t) - 1) = t

Infix(t, s) == \E i \in 1..(Len(s) + 1) : InfixAt(t, s, i)

\* both calls of url_tostring have returned
BothFormatted == fn = "url_tostring" /\ upc = "done"

\* url has what it takes for "user:pass@" to be written in full
PasswordDue ==
  /\ "U_DECODE_PASSWD" \in flags
  /\ url.scheme # "U_UNKNOWN" /\ url.host # Null
  /\ url.user # Null /\ url.user # LongUser /\ url.pass # Null
  /\ url.user # << >> \/ "U_PATH" \notin flags
  /\ size = 400

\* C18: without U_DECODE_PASSWD url_tostring writes the same string for two
\* struct Url that differ in pass alone; the string depends on pass only
\* with U_DECODE_PASSWD set and user and pass both there, and then it has
\* "user:pass@" with both percent-encoded.
PasswordHidden ==
  BothFormatted =>
    /\ "U_DECODE_PASSWD" \notin flags => dest = dest2
    /\ (url2.pass = Null /\ dest # dest2) =>
         ("U_DECODE_PASSWD" \in flags /\ url.user # Null /\ url.pass # Null)
    /\ PasswordDue =>
         Infix(Escaped(url.user) \o << 58 >> \o Escaped(url.pass) \o << 64 >>, dest)

\* "imap://a%2Fb@h:143/x" for the passwords "s:%" and "p"
PasswordHiddenWitness ==
  /\ BothFormatted
  /\ flags = { }
  /\ url.pass = << 115, 58, 37 >> /\ url2.pass = << 112 >>
  /\ url.user = << 97, 47, 98 >>
  /\ dest = << 105, 109, 97, 112, 58, 47, 47, 97, 37, 50, 70, 98, 64, 104,
               58, 49, 52, 51, 47, 120 >>
  /\ dest2 = dest

-----------------------------------------------------------------------------
(* url_parse, then url_tostring *)

\* url_parse has returned
Parsed == fn = "url_parse" /\ upc # "call"

\* url_parse has returned 0 and url_tostring has returned
Formatted == fn = "url_parse" /\ upc = "done" /\ parse.rc = 0

\* "file", "imap", "imaps", "pop", "pops", "mailto", "smtp", "smtps"
CommonNames ==
  { << 102, 105, 108, 101 >>, << 105, 109, 97, 112 >>,
    << 105, 109, 97, 112, 115 >>, << 112, 111, 112 >>, << 112, 111, 112, 115 >>,
    << 109, 97, 105, 108, 116, 111 >>, << 115, 109, 116, 112 >>,
    << 115, 109, 116, 112, 115 >> }

\* those and "nntp", "nntps"
StatedNames ==
  CommonNames \cup { << 110, 110, 116, 112 >>, << 110, 110, 116, 112, 115 >> }

\* those and "news", "snews"
TableNames ==
  CommonNames \cup { << 110, 101, 119, 115 >>, << 115, 110, 101, 119, 115 >> }

\* "h" and "[::1]"
CanonicalHosts == { << 104 >>, << 91, 58, 58, 49, 93 >> }

\* no port, ":143", ":65535"
CanonicalPorts == { << >>, << 58, 49, 52, 51 >>, << 58, 54, 53, 53, 51, 53 >> }

\* name "://" [user "@"] host [":" port] "/"
Canonical(names, users) ==
  { n \o << 58, 47, 47 >> \o ui \o h \o pt \o << 47 >> :
      n \in names, ui \in users, h \in CanonicalHosts, pt \in CanonicalPorts }

\* the user is "u", 256 times 'a', or left out
StatedCanonical ==
  Canonical(StatedNames, { << >>, << 117, 64 >>, LongUser \o << 64 >> })

\* the user is "u" or left out
TableCanonical == Canonical(TableNames, { << >>, << 117, 64 >> })

\* C15 as stated: for every string of the shape name "://" [user "@"] host
\* [":" port] "/" with one of the names file, imap, imaps, pop, pops, nntp,
\* nntps, mailto, smtp, smtps, url_parse returns 0 and url_tostring of what it
\* filled, with flags 0, returns with that string in dest.
RoundTripAsStated ==
  (fn = "url_parse" /\ text \in StatedCanonical) =>
    /\ upc # "crash"
    /\ Parsed => parse.rc = 0
    /\ upc = "done" => (rc = 0 /\ dest = text)

\* C15: for every string of the shape name "://" [user "@"] host [":" port]
\* "/" with one of the names of UrlMap (file, imap, imaps, pop, pops, news,
\* snews, mailto, smtp, smtps), a user shorter than 256 bytes and a dest that
\* has room for the string, url_parse returns 0 and url_tostring of what it
\* filled, with flags 0, returns 0 with that string in dest, no byte being
\* written outside a buffer.
RoundTripCanonical ==
  (fn = "url_parse" /\ text \in TableCanonical) =>
    /\ upc # "crash" /\ ~oob
    /\ Parsed => parse.rc = 0
    /\ upc = "done" => (rc = 0 /\ dest = text)

\* "snews://u@[::1]:65535/" has come back
RoundTripCanonicalWitness ==
  /\ Formatted
  /\ text = << 115, 110, 101, 119, 115, 58, 47, 47, 117, 64, 91, 58, 58, 49,
               93, 58, 54, 53, 53, 51, 53, 47 >>
  /\ url.scheme = "U_NNTPS" /\ url.port = 65535 /\ url.path = << >>
  /\ dest = text

\* the texts whose host is "[::1]" followed by pt, with a user and a path that
\* url_pct_decode accepts
BracketedTexts(pt) ==
  { n \o << 58, 47, 47 >> \o ui \o << 91, 58, 58, 49, 93 >> \o pt \o pa :
      n \in TableNames,
      ui \in ParseUserInfos \ { << 117, 37, 64 >> },
      pa \in ParsePaths \ { << 47, 63, 37 >> } }

\* what follows the ']', and the port it stands for
PortsAfterBracket ==
  { << << >>, 0 >>, << << 58 >>, 0 >>, << << 58, 49, 52, 51 >>, 143 >>,
    << << 58, 54, 53, 53, 51, 53 >>, 65535 >> }

\* url_tostring has returned 0 for url, with room in dest and all bytes
\* written inside the buffers
HostWritten ==
  /\ \/ fn = "url_tostring" /\ upc \in {"second", "done"}
     \/ Formatted
  /\ url.scheme # "U_UNKNOWN" /\ url.host # Null
  /\ size = 400 /\ ~oob

\* C16: url_tostring writes "[host]" for a host with a ':' and the host with
\* no bracket before it otherwise; url_parse of "[::1]" with a port or none
\* after it returns 0 with the host "::1" and the port that stands after the
\* ']', and fails for ":65536" and ":1x" after the ']'.
HostBracketing ==
  /\ HostWritten =>
       IF 58 \in Range(url.host)
         THEN \/ Infix(<< 91 >> \o url.host \o << 93, 47 >>, dest)
              \/ Infix(<< 91 >> \o url.host \o << 93, 58 >>, dest)
         ELSE /\ \/ Infix(url.host \o << 47 >>, dest)
                 \/ Infix(url.host \o << 58 >>, dest)
              /\ ~Infix(<< 91 >> \o url.host, dest)
  /\ Parsed =>
       /\ \A pp \in PortsAfterBracket :
            text \in BracketedTexts(pp[1]) =>
              /\ parse.rc = 0
              /\ url.host = << 58, 58, 49 >>
              /\ url.port = pp[2]
       /\ text \in BracketedTexts(<< 58, 54, 53, 53, 51, 54 >>) => parse.rc = -1
       /\ text \in BracketedTexts(<< 58, 49, 120 >>) => parse.rc = -1

\* "imap://u:p@[::1]:143/x" has been read and written as "imap://u@[::1]:143/x"
HostBracketingWitness ==
  /\ Formatted
  /\ text = << 105, 109, 97, 112, 58, 47, 47, 117, 58, 112, 64, 91, 58, 58, 49,
               93, 58, 49, 52, 51, 47, 120 >>
  /\ url.host = << 58, 58, 49 >> /\ url.port = 143
  /\ dest = << 105, 109, 97, 112, 58, 47, 47, 117, 64, 91, 58, 58, 49,
               93, 58, 49, 52, 51, 47, 120 >>

-----------------------------------------------------------------------------
(* url_parse: what it refuses *)

\* a user and password part that url_pct_decode accepts
GoodUserInfos == ParseUserInfos \ { << 117, 37, 64 >> }

\* a path that url_pct_decode accepts
GoodPaths == ParsePaths \ { << 47, 63, 37 >> }

\* "h", "[::1]", "h%41" and no host
ClosedHosts ==
  { << 104 >>, << 91, 58, 58, 49, 93 >>, << 104, 37, 52, 49 >>, << >> }

\* the texts made of a name of UrlMap, "://", a good user part, the host h,
\* pt and a good path
TextsWith(hosts, pt) ==
  { n \o << 58, 47, 47 >> \o ui \o h \o pt \o pa :
      n \in TableNames, ui \in GoodUserInfos, h \in hosts, pa \in GoodPaths }

\* for each port text, the texts that have it after a host of ClosedHosts
PortTextsOf == [pt \in ParsePorts |-> TextsWith(ClosedHosts, pt)]

\* the texts with the port text pt after a host of ClosedHosts
PortTexts(pt) == PortTextsOf[pt]

\* the texts whose host is "[abc" or "[::1"
UnclosedTexts ==
  UNION { TextsWith({ << 91, 97, 98, 99 >>, << 91, 58, 58, 49 >> }, pt) :
            pt \in ParsePorts }

\* the port texts that are a number of 0..65535 in digits, with that number
DigitPorts ==
  { << << 58, 49, 52, 51 >>, 143 >>, << << 58, 54, 53, 53, 51, 53 >>, 65535 >>,
    << << 58, 48 >>, 0 >> }

\* ":65536", ":1x", ":-1"
BadPortTexts ==
  { << 58, 54, 53, 53, 51, 54 >>, << 58, 49, 120 >>, << 58, 45, 49 >> }

\* what C21 says of the texts with digits or with no ':' after the host, and
\* of the texts with ":65536", ":1x" or ":-1"
PortRead ==
  /\ \A pp \in DigitPorts :
       text \in PortTexts(pp[1]) => (parse.rc = 0 /\ url.port = pp[2])
  /\ text \in PortTexts(<< >>) => (parse.rc = 0 /\ url.port = 0)
  /\ \A pt \in BadPortTexts : text \in PortTexts(pt) => parse.rc = -1

\* C21 as stated: url_parse returns -1 whenever what stands between the ':'
\* after the host and the end of the authority is not a decimal integer of
\* 0..65535, the empty text among them; otherwise the port is that integer,
\* and 0 with no ':' after the host.
BadPortRejected ==
  Parsed => (PortRead /\ (text \in PortTexts(<< 58 >>) => parse.rc = -1))

\* C21: url_parse returns -1 whenever what stands between the ':' after the
\* host and the end of the authority is not empty and is not a base-ten
\* integer of 0..65535 (":65536", ":1x", ":-1"); otherwise the port is that
\* integer (":+7" gives 7), and it is 0 for the empty text and with no ':'
\* after the host.
PortAccepted ==
  Parsed =>
    /\ PortRead
    /\ text \in PortTexts(<< 58 >>) => (parse.rc = 0 /\ url.port = 0)
    /\ text \in PortTexts(<< 58, 43, 55 >>) => (parse.rc = 0 /\ url.port = 7)

\* "pop://h:65536/x" is refused at the port, the path being cut off already
PortAcceptedWitness ==
  /\ Parsed /\ upc = "done" /\ parse.rc = -1
  /\ text = << 112, 111, 112, 58, 47, 47, 104, 58, 54, 53, 53, 51, 54, 47, 120 >>
  /\ url.host = Null /\ url.port = 0 /\ url.path = << 120 >>

\* C22 as stated: url_parse returns -1 for every URL whose host starts with
\* '[' and has no ']' before the end of the authority, "imap://[abc/" and
\* "imap://[::1/" among them.
UnclosedBracketRejected ==
  (Parsed /\ text \in UnclosedTexts) => parse.rc = -1

-----------------------------------------------------------------------------
(* utf8_to_utf7: the bits of a shift sequence *)

\* utf8_to_utf7 is at the end of its input with a shift sequence open
AtEndOpen == pc = "enc" /\ ulen = 0 /\ base64

\* the pending digit is written when k is 10 or more
FlushFromTenStep ==
  AtEndOpen =>
    Added = (IF k >= 10 THEN << DigitOf(b) >> ELSE << >>) \o << 45, 0 >>

\* C23 as stated: at the end of the input with a shift sequence open,
\* utf8_to_utf7 writes one more digit exactly when k >= 10, so also when k is
\* 10, and then the '-'.
FlushFromTen == [][FlushFromTenStep]_vars

\* the pending digit is written when k is more than 10
FlushAboveTenStep ==
  AtEndOpen =>
    /\ k \in {10, 12, 14}
    /\ Added = (IF k > 10 THEN << DigitOf(b) >> ELSE << >>) \o << 45, 0 >>

\* C23: at the end of the input with a shift sequence open, utf8_to_utf7
\* writes one more digit exactly when k > 10, that is when k is 12 or 14, and
\* none when k is 10, and then the '-'.
FlushAboveTen == [][FlushAboveTenStep]_vars

\* three times U+0009 have become "&AAkACQAJ-": eight digits and no ninth
FlushAboveTenWitness ==
  /\ mode = "u8" /\ stage = 1 /\ pc = "ret" /\ res1.ok
  /\ input = << 9, 9, 9 >>
  /\ k = 10 /\ b = 0 /\ base64
  /\ Text(res1) = << 38, 65, 65, 107, 65, 67, 81, 65, 74, 45 >>

\* the code points of w[i .. last] since the last printable one, n so far
RECURSIVE UnitsOpen(_, _, _, _)
UnitsOpen(w, i, last, n) ==
  IF i > last THEN n
  ELSE IF ~WellFormedAt(w, i) THEN -1
  ELSE IF Printable(SequenceValue(w, i, SequenceLength(w[i])))
    THEN UnitsOpen(w, i + SequenceLength(w[i]), last, 0)
  ELSE UnitsOpen(w, i + SequenceLength(w[i]), last, n + 1)

\* the 16-bit unit of the last code point of w[i .. last], u so far
RECURSIVE LastUnit(_, _, _, _)
LastUnit(w, i, last, u) ==
  IF i > last \/ ~WellFormedAt(w, i) THEN u
  ELSE LET v == SequenceValue(w, i, SequenceLength(w[i]))
       IN LastUnit(w, i + SequenceLength(w[i]), last,
                   IF v > \hffff THEN \hfffe ELSE v)

\* the place of the last '&' of w, 0 when there is none
LastAmp(w) ==
  IF \E i \in 1..Len(w) : w[i] = 38
    THEN CHOOSE i \in 1..Len(w) : w[i] = 38 /\ \A j \in (i + 1)..Len(w) : w[j] # 38
    ELSE 0

\* the code points packed into the open shift sequence
PackedUnits == UnitsOpen(src, 1, off, 0)

\* the bits of them that are not written yet
PendingBits == (16 * PackedUnits) % 6

\* utf8_to_utf7 is in a shift sequence
InShift == pc = "enc" /\ base64

\* k, the digits written and b agree with the code points packed
OpenPacked ==
  /\ PackedUnits >= 1
  /\ k = 10 + PendingBits
  /\ k \in {10, 12, 14}
  /\ LastAmp(p) > 0
  /\ Len(p) - LastAmp(p) = (16 * PackedUnits) \div 6
  /\ \A j \in (LastAmp(p) + 1)..Len(p) : IsDigit(p[j])
  /\ b = (LastUnit(src, 1, off, 0) % Pow2(PendingBits)) * Pow2(6 - PendingBits)

\* the digits a closed shift sequence of n units has
ClosedDigits(n) == (16 * n + 5) \div 6

\* a step that writes the '-' of the open shift sequence
ClosingStep ==
  (InShift /\ Len(p') > Len(p) /\ (~base64' \/ pc' # "enc")) =>
    /\ Len(p') >= LastAmp(p) + ClosedDigits(PackedUnits) + 1
    /\ \A j \in 1..ClosedDigits(PackedUnits) : IsDigit(p'[LastAmp(p) + j])
    /\ p'[LastAmp(p) + ClosedDigits(PackedUnits) + 1] = 45

\* C24: in an open shift sequence into which n code points are packed, k is
\* 10 + (16n mod 6), floor(16n/6) digits are written since the '&', and b holds
\* the 16n mod 6 low bits of the last unit at the top of a 6-bit digit, the
\* bits below them 0; a step that closes the sequence leaves ceil(16n/6)
\* digits between the '&' and the '-'.
BitPacking == [](InShift => OpenPacked) /\ [][ClosingStep]_vars

\* the shift sequence of U+0009 U+0009 is open: "&AAkAC", 2 bits pending in 'Q'
BitPackingWitness ==
  /\ mode = "u8" /\ stage = 1 /\ InShift /\ ulen = 0
  /\ input = << 9, 9 >>
  /\ PackedUnits = 2 /\ k = 12 /\ b = 16
  /\ p = << 38, 65, 65, 107, 65, 67 >>

-----------------------------------------------------------------------------
(* The buffers of the two converters *)

\* a control character and '&' in turn, an odd number of them
Alternating == { << 9 >>, << 9, 38, 9 >> }

\* a step of utf8_to_utf7 leaves no more bytes in buf than were allocated
EncoderWriteStep ==
  pc = "enc" =>
    /\ Utf7BufSize(Len(src)) = 7 * (Len(src) \div 2) + 6
    /\ Len(p') <= Utf7BufSize(Len(src))
    /\ (src \in Alternating /\ ulen = 0) => Len(p') = Utf7BufSize(Len(src))

\* C25: the bytes utf8_to_utf7 writes, the terminating NUL among them, are
\* never more than the 7 * floor(u8len / 2) + 6 bytes it allocates, and they
\* are as many for inputs of a control character and '&' in turn.
EncoderBufferBound == [][EncoderWriteStep]_vars

\* "\t&\t" has become "&AAk-&-&AAk-", 13 bytes with the NUL in a buffer of 13
EncoderBufferBoundWitness ==
  /\ mode = "u8" /\ stage = 1 /\ pc = "ret" /\ res1.ok
  /\ input = << 9, 38, 9 >>
  /\ Len(res1.buf) = 13
  /\ Utf7BufSize(Len(input)) = 13

\* utf7_to_utf8 is running
Decoding == pc \in {"dec", "shift"}

\* a step of utf7_to_utf8 leaves no more bytes in buf than were allocated
DecoderWriteStep ==
  Decoding =>
    /\ Utf8BufSize(Len(src)) = Len(src) + Len(src) \div 8 + 1
    /\ Len(p') <= Utf8BufSize(Len(src))

\* C26: the bytes utf7_to_utf8 writes, the terminating NUL among them, are
\* never more than the u7len + floor(u7len / 8) + 1 bytes it allocates.
DecoderBufferBound == [][DecoderWriteStep]_vars

\* "&JjomOiY6-", 10 bytes, has become three times U+263A, 10 bytes with the
\* NUL in a buffer of 12
DecoderBufferBoundWitness ==
  /\ mode = "u8" /\ stage = 2 /\ pc = "ret" /\ res2.ok
  /\ Text(res1) = << 38, 74, 106, 111, 109, 79, 105, 89, 54, 45 >>
  /\ Len(res2.buf) = 10
  /\ Utf8BufSize(Len(src)) = 12

-----------------------------------------------------------------------------
(* imap_utf_decode *)

\* mutt_str_strdup: NULL for NULL and for the empty string, or a copy in the
\* block named
StrDup(name, x) ==
  IF x = NullBlock \/ x.str = << >> THEN NullBlock
  ELSE [blk |-> name, str |-> x.str]

\* the character sets iconv can write
KnownCharsets == { "iso-8859-1" }

\* the bytes of w[i ..] in ISO-8859-1; '?' for a code point above U+00FF and
\* for a byte that starts no well-formed sequence
RECURSIVE Latin1From(_, _)
Latin1From(w, i) ==
  IF i > Len(w) THEN << >>
  ELSE IF ~WellFormedAt(w, i) THEN << 63 >> \o Latin1From(w, i + 1)
  ELSE LET v == SequenceValue(w, i, SequenceLength(w[i]))
       IN << IF v <= 255 THEN v ELSE 63 >>
            \o Latin1From(w, i + SequenceLength(w[i]))

\* what mutt_ch_convert_string(&t, "utf-8", Charset, 0) returns: 0 for an
\* empty string, -1 when iconv does not know Charset, else 0
ConvertRc(x, cs) ==
  IF x.str = << >> THEN 0
  ELSE IF cs \in KnownCharsets THEN 0
  ELSE -1

\* and what it leaves in t: the converted text in a new block, t being freed
ConvertString(x, cs) ==
  IF x.str = << >> \/ cs \notin KnownCharsets THEN x
  ELSE [blk |-> "conv", str |-> Latin1From(x.str, 1)]

\* t is taken whatever mutt_ch_convert_string returned
ReplacesUnconverted(x, r) == x # NullBlock

\* if (t && mutt_ch_convert_string(&t, "utf-8", Charset, 0) == 0)
Replaces(x, r) == x # NullBlock /\ r = << 0 >>

\* the strings given to imap_utf_decode
DecodeInputs ==
  SeqsUpTo(WireAlphabet, MaxWireLen - 1) \cup WireVectors

\* imap_utf_decode(idata, &s) is called
InitUtf ==
  /\ UrlIdle
  /\ FlagIdle
  /\ AliasIdle
  /\ mode = "decode"
  /\ charSigned \in BOOLEAN
  /\ input \in DecodeInputs
  /\ stage = 2
  /\ pc = "ret"
  /\ src = << >>
  /\ off = 0
  /\ ulen = 0
  /\ p = << >>
  /\ ch = 0
  /\ k = 0
  /\ b = 0
  /\ base64 = FALSE
  /\ res1 = NullResult
  /\ res2 = NullResult
  /\ buf = "NULL"
  /\ outPtr = "NULL"
  /\ outLen = 0
  /\ Charset \in { "NULL", "iso-8859-1", "x-unknown" }
  /\ unicode \in BOOLEAN
  /\ wpc = "call"
  /\ sPtr = [blk |-> "s", str |-> input]
  /\ tPtr = NullBlock
  /\ freed = { }
  /\ crc = << >>

\* if (!Charset) return
UtfDecodeNoCharset ==
  /\ wpc = "call" /\ Charset = "NULL"
  /\ wpc' = "done"
  /\ UNCHANGED <<Charset, unicode, sPtr, tPtr, freed, crc>>
  /\ UNCHANGED <<codecVars, urlVars, flagVars, aliasVars>>

\* t = mutt_str_strdup(*s)
UtfDecodeCopy ==
  /\ wpc = "call" /\ Charset # "NULL" /\ unicode
  /\ tPtr' = StrDup("t", sPtr)
  /\ wpc' = "convert"
  /\ UNCHANGED <<Charset, unicode, sPtr, freed, crc>>
  /\ UNCHANGED <<codecVars, urlVars, flagVars, aliasVars>>

\* t = utf7_to_utf8(*s, strlen(*s), 0, 0): the call
UtfDecodeCall ==
  /\ wpc = "call" /\ Charset # "NULL" /\ ~unicode
  /\ wpc' = "utf7"
  /\ pc' = "dec"
  /\ src' = sPtr.str
  /\ off' = 0
  /\ ulen' = Len(sPtr.str)
  /\ p' = << >>
  /\ buf' = "malloc"
  /\ UNCHANGED <<mode, charSigned, input, stage, ch, k, b, base64, res1, res2,
                 outPtr, outLen>>
  /\ UNCHANGED <<Charset, unicode, sPtr, tPtr, freed, crc>>
  /\ UNCHANGED <<urlVars, flagVars, aliasVars>>

\* t = utf7_to_utf8(*s, strlen(*s), 0, 0): the assignment
UtfDecodeReturned ==
  /\ wpc = "utf7" /\ pc = "ret"
  /\ tPtr' = (IF res2.ok THEN [blk |-> "t", str |-> Text(res2)] ELSE NullBlock)
  /\ wpc' = "convert"
  /\ UNCHANGED <<Charset, unicode, sPtr, freed, crc>>
  /\ UNCHANGED <<codecVars, urlVars, flagVars, aliasVars>>

\* the blocks x names, none for NULL
BlocksOf(x) == IF x = NullBlock THEN { } ELSE { x.blk }

\* FREE(s) and *s = t after a conversion that returned 0, else FREE(&t)
UtfDecodeConvert ==
  /\ wpc = "convert"
  /\ LET r == IF tPtr = NullBlock THEN << >> ELSE << ConvertRc(tPtr, Charset) >>
         c == IF tPtr = NullBlock THEN tPtr ELSE ConvertString(tPtr, Charset)
     IN /\ crc' = r
        /\ IF Replaces(tPtr, r)
             THEN /\ sPtr' = c
                  /\ tPtr' = c
                  /\ freed' = freed \cup BlocksOf(sPtr) \cup (BlocksOf(tPtr) \ BlocksOf(c))
             ELSE /\ sPtr' = sPtr
                  /\ tPtr' = NullBlock
                  /\ freed' = freed \cup BlocksOf(tPtr) \cup BlocksOf(c)
  /\ wpc' = "done"
  /\ UNCHANGED <<Charset, unicode>>
  /\ UNCHANGED <<codecVars, urlVars, flagVars, aliasVars>>

NextUtf ==
  \/ UtfDecodeNoCharset
  \/ UtfDecodeCopy
  \/ UtfDecodeCall
  \/ UtfDecodeReturned
  \/ UtfDecodeConvert
  \/ DecAmpDash
  \/ DecShiftOpen
  \/ DecDigit
  \/ DecBailPrintable
  \/ DecBailExtraBits
  \/ DecBailUnterminated
  \/ DecBailAdjacent
  \/ DecShiftClose
  \/ DecBailNotPrintable
  \/ DecLiteral
  \/ DecFinish

SpecUtf == InitUtf /\ [][NextUtf]_vars

\* the string imap_utf_decode was given, in the caller's block
Original == [blk |-> "s", str |-> input]

\* the UTF-7 decoding, or the copy, gave a string
DecodeSucceeded == IF unicode THEN input # << >> ELSE res2.ok

\* the charset conversion was called and returned 0
ConvertSucceeded == crc = << 0 >>

\* C27: imap_utf_decode replaces *s only when the UTF-7 decoding (the copy
\* when idata->unicode is set) and the charset conversion both succeeded, and
\* then *s is the converted string in a block that is not freed; otherwise *s
\* is the original string in its block, which is not freed, and *s is never
\* NULL.
WrapperFrame ==
  wpc # "idle" =>
    /\ sPtr # NullBlock
    /\ sPtr.blk \notin freed
    /\ wpc # "done" => sPtr = Original
    /\ wpc = "done" =>
         IF Charset # "NULL" /\ DecodeSucceeded /\ ConvertSucceeded
           THEN sPtr.blk # "s" /\ "s" \in freed
           ELSE sPtr = Original

\* "&AAA" is no UTF-7 and is still in *s; nothing was converted
WrapperFrameWitness ==
  /\ wpc = "done" /\ Charset = "iso-8859-1" /\ ~unicode
  /\ input = << 38, 65, 65, 65 >>
  /\ ~res2.ok /\ crc = << >>
  /\ sPtr = Original /\ freed = { }

\* "&Jjo-" was decoded, but iconv does not know Charset: *s is as it was
WrapperUnconverted ==
  /\ wpc = "done" /\ Charset = "x-unknown" /\ ~unicode
  /\ input = << 38, 74, 106, 111, 45 >>
  /\ res2.ok /\ crc = << -1 >>
  /\ sPtr = Original /\ freed = { "t" }

-----------------------------------------------------------------------------
(* flags.c: mutt_set_flag_update *)

\* most calls of mutt_set_flag_update in a run
MaxCalls == 2

\* the messages of the mailbox
Msgs == { 1, 2 }

\* the values of flag the switch has a case for
Flags ==
  { "MUTT_DELETE", "MUTT_PURGE", "MUTT_NEW", "MUTT_OLD", "MUTT_READ",
    "MUTT_REPLIED", "MUTT_FLAG", "MUTT_TAG" }

\* the bits of ctx->rights the function tests
AclBits == { "MUTT_ACL_DELETE", "MUTT_ACL_SEEN", "MUTT_ACL_WRITE" }

\* if (upd_ctx) ctx->field += d
Count(c, field, d, upd) == IF upd THEN [c EXCEPT ![field] = @ + d] ELSE c

\* if (upd_ctx) ctx->changed = true
Changed(c, upd) == IF upd THEN [c EXCEPT !.changed = TRUE] ELSE c

\* what a case of the switch leaves: ctx, the header, and update
Left(c, h, u) == [c |-> c, h |-> h, update |-> u]

\* case MUTT_DELETE
SetDelete(c, h, fs, bf, upd) ==
  IF bf
    THEN IF ~h.deleted /\ ~c.readonly /\ (~h.flagged \/ ~fs)
           THEN IF c.magic = "MUTT_IMAP"
                  THEN Left(Changed(Count(c, "deleted", 1, upd), upd),
                            [h EXCEPT !.deleted = TRUE, !.changed = TRUE], TRUE)
                  ELSE Left(Count(c, "deleted", 1, upd),
                            [h EXCEPT !.deleted = TRUE], TRUE)
           ELSE Left(c, h, FALSE)
  ELSE IF h.deleted
    THEN IF c.magic = "MUTT_IMAP"
           THEN Left(Changed(Count(c, "deleted", -1, upd), upd),
                     [h EXCEPT !.deleted = FALSE, !.changed = TRUE], TRUE)
         ELSE IF c.magic = "MUTT_MAILDIR" /\ h.trash
           THEN Left(Changed(Count(c, "deleted", -1, upd), upd),
                     [h EXCEPT !.deleted = FALSE], TRUE)
         ELSE Left(Count(c, "deleted", -1, upd), [h EXCEPT !.deleted = FALSE], TRUE)
  ELSE Left(c, h, FALSE)

\* case MUTT_PURGE
SetPurge(c, h, fs, bf, upd) ==
  IF bf
    THEN IF ~h.purge /\ ~c.readonly
           THEN Left(c, [h EXCEPT !.purge = TRUE], FALSE)
           ELSE Left(c, h, FALSE)
  ELSE IF h.purge THEN Left(c, [h EXCEPT !.purge = FALSE], FALSE)
  ELSE Left(c, h, FALSE)

\* case MUTT_NEW
SetNew(c, h, fs, bf, upd) ==
  IF bf
    THEN IF h.read \/ h.old
           THEN Left(Changed(Count(Count(c, "new", 1, upd), "unread",
                                   IF h.read THEN 1 ELSE 0, upd), upd),
                     [h EXCEPT !.old = FALSE, !.read = FALSE, !.changed = TRUE],
                     TRUE)
           ELSE Left(c, h, FALSE)
  ELSE IF ~h.read
    THEN Left(Changed(Count(Count(c, "new", IF ~h.old THEN -1 ELSE 0, upd),
                            "unread", -1, upd), upd),
              [h EXCEPT !.read = TRUE, !.changed = TRUE], TRUE)
  ELSE Left(c, h, FALSE)

\* case MUTT_OLD
SetOld(c, h, fs, bf, upd) ==
  IF bf
    THEN IF ~h.old
           THEN Left(Changed(Count(c, "new", IF ~h.read THEN -1 ELSE 0, upd), upd),
                     [h EXCEPT !.old = TRUE, !.changed = TRUE], TRUE)
           ELSE Left(c, h, FALSE)
  ELSE IF h.old
    THEN Left(Changed(Count(c, "new", IF ~h.read THEN 1 ELSE 0, upd), upd),
              [h EXCEPT !.old = FALSE, !.changed = TRUE], TRUE)
  ELSE Left(c, h, FALSE)

\* case MUTT_READ
SetRead(c, h, fs, bf, upd) ==
  IF bf
    THEN IF ~h.read
           THEN Left(Changed(Count(Count(c, "unread", -1, upd), "new",
                                   IF ~h.old THEN -1 ELSE 0, upd), upd),
                     [h EXCEPT !.read = TRUE, !.changed = TRUE], TRUE)
           ELSE Left(c, h, FALSE)
  ELSE IF h.read
    THEN Left(Changed(Count(Count(c, "unread", 1, upd), "new",
                            IF ~h.old THEN 1 ELSE 0, upd), upd),
              [h EXCEPT !.read = FALSE, !.changed = TRUE], TRUE)
  ELSE Left(c, h, FALSE)

\* the message is marked read without the counters being told
SetRepliedUncounted(c, h, fs, bf, upd) ==
  IF bf
    THEN IF ~h.replied
           THEN Left(Changed(c, upd),
                     [h EXCEPT !.replied = TRUE, !.read = TRUE, !.changed = TRUE],
                     TRUE)
           ELSE Left(c, h, FALSE)
  ELSE IF h.replied
    THEN Left(Changed(c, upd), [h EXCEPT !.replied = FALSE, !.changed = TRUE], TRUE)
  ELSE Left(c, h, FALSE)

\* case MUTT_REPLIED
SetReplied(c, h, fs, bf, upd) ==
  IF bf
    THEN IF ~h.replied
           THEN Left(Changed(
                       IF ~h.read
                         THEN Count(Count(c, "unread", -1, upd), "new",
                                    IF ~h.old THEN -1 ELSE 0, upd)
                         ELSE c, upd),
                     [h EXCEPT !.replied = TRUE, !.read = TRUE, !.changed = TRUE],
                     TRUE)
           ELSE Left(c, h, FALSE)
  ELSE IF h.replied
    THEN Left(Changed(c, upd), [h EXCEPT !.replied = FALSE, !.changed = TRUE], TRUE)
  ELSE Left(c, h, FALSE)

\* case MUTT_FLAG
SetFlagged(c, h, fs, bf, upd) ==
  IF bf
    THEN IF ~h.flagged
           THEN Left(Changed(Count(c, "flagged", 1, upd), upd),
                     [h EXCEPT !.flagged = bf, !.changed = TRUE], TRUE)
           ELSE Left(c, h, FALSE)
  ELSE IF h.flagged
    THEN Left(Changed(Count(c, "flagged", -1, upd), upd),
              [h EXCEPT !.flagged = FALSE, !.changed = TRUE], TRUE)
  ELSE Left(c, h, FALSE)

\* case MUTT_TAG
SetTag(c, h, fs, bf, upd) ==
  IF bf
    THEN IF ~h.tagged
           THEN Left(Count(c, "tagged", 1, upd), [h EXCEPT !.tagged = TRUE], TRUE)
           ELSE Left(c, h, FALSE)
  ELSE IF h.tagged
    THEN Left(Count(c, "tagged", -1, upd), [h EXCEPT !.tagged = FALSE], TRUE)
  ELSE Left(c, h, FALSE)

\* the bit of ctx->rights a case asks for, before anything else
AclOf(flag) ==
  CASE flag \in { "MUTT_DELETE", "MUTT_PURGE" } -> { "MUTT_ACL_DELETE" }
    [] flag \in { "MUTT_NEW", "MUTT_OLD", "MUTT_READ" } -> { "MUTT_ACL_SEEN" }
    [] flag \in { "MUTT_REPLIED", "MUTT_FLAG" } -> { "MUTT_ACL_WRITE" }
    [] OTHER -> { }

\* switch (flag)
Switch(c, h, fs, flag, bf, upd) ==
  CASE flag = "MUTT_DELETE" -> SetDelete(c, h, fs, bf, upd)
    [] flag = "MUTT_PURGE" -> SetPurge(c, h, fs, bf, upd)
    [] flag = "MUTT_NEW" -> SetNew(c, h, fs, bf, upd)
    [] flag = "MUTT_OLD" -> SetOld(c, h, fs, bf, upd)
    [] flag = "MUTT_READ" -> SetRead(c, h, fs, bf, upd)
    [] flag = "MUTT_REPLIED" -> SetReplied(c, h, fs, bf, upd)
    [] flag = "MUTT_FLAG" -> SetFlagged(c, h, fs, bf, upd)
    [] flag = "MUTT_TAG" -> SetTag(c, h, fs, bf, upd)

\* if (h->searched && (changed != h->changed || deleted != ctx->deleted ||
\*     tagged != ctx->tagged || flagged != ctx->flagged)) h->searched = false
Invalidate(c0, h0, c1, h1) ==
  IF h1.searched /\ (h0.changed # h1.changed \/ c0.deleted # c1.deleted
                      \/ c0.tagged # c1.tagged \/ c0.flagged # c1.flagged)
    THEN [h1 EXCEPT !.searched = FALSE]
    ELSE h1

\* mutt_set_flag_update(ctx, h, flag, bf, upd_ctx): ctx and the header after it
SetFlagUpdate(c, h, fs, flag, bf, upd) ==
  IF c.readonly /\ flag # "MUTT_TAG" THEN [c |-> c, h |-> h]
  ELSE IF ~(AclOf(flag) \subseteq c.rights) THEN [c |-> c, h |-> h]
  ELSE [c |-> Switch(c, h, fs, flag, bf, upd).c,
        h |-> Invalidate(c, h, Switch(c, h, fs, flag, bf, upd).c,
                         Switch(c, h, fs, flag, bf, upd).h)]

\* a header with the bits in on set
Header(on) ==
  [deleted |-> "deleted" \in on, purge |-> "purge" \in on, read |-> "read" \in on,
   old |-> "old" \in on, replied |-> "replied" \in on,
   flagged |-> "flagged" \in on, tagged |-> "tagged" \in on,
   changed |-> "changed" \in on, searched |-> "searched" \in on,
   trash |-> "trash" \in on]

\* messages a search has seen: a new one; a read, old, flagged and changed
\* one; a deleted and tagged one from the trash
StartHeaders ==
  { Header({ "searched" }),
    Header({ "read", "old", "flagged", "changed", "searched" }),
    Header({ "deleted", "tagged", "trash", "searched" }) }

\* the messages m of hh for which Is(hh[m]) holds
HowMany(hh, Is(_)) == Cardinality({ m \in DOMAIN hh : Is(hh[m]) })

IsDeleted(h) == h.deleted
IsFlagged(h) == h.flagged
IsTagged(h) == h.tagged
IsUnread(h) == ~h.read
IsNew(h) == ~h.read /\ ~h.old

\* a mailbox: readonly, the rights it lacks, its magic, and FlagSafe
Mailbox(ro, denied, mg, fs) ==
  [readonly |-> ro, rights |-> AclBits \ denied, magic |-> mg, FlagSafe |-> fs]

\* the three kinds of mailbox with every right, one with FlagSafe set, one
\* that is read-only, and one for each right that may be missing
Mailboxes ==
  { Mailbox(FALSE, { }, "MUTT_MBOX", FALSE),
    Mailbox(FALSE, { }, "MUTT_IMAP", FALSE),
    Mailbox(FALSE, { }, "MUTT_MAILDIR", FALSE),
    Mailbox(FALSE, { }, "MUTT_IMAP", TRUE),
    Mailbox(TRUE, { }, "MUTT_MBOX", FALSE),
    Mailbox(FALSE, { "MUTT_ACL_DELETE" }, "MUTT_MAILDIR", FALSE),
    Mailbox(FALSE, { "MUTT_ACL_SEEN" }, "MUTT_IMAP", FALSE),
    Mailbox(FALSE, { "MUTT_ACL_WRITE" }, "MUTT_MBOX", TRUE) }

\* a mailbox is open, its counters as the messages are
InitFlags ==
  /\ CodecIdle
  /\ UrlIdle
  /\ UtfIdle
  /\ AliasIdle
  /\ hdrs \in [Msgs -> StartHeaders]
  /\ \E mb \in Mailboxes :
       /\ ctx = [deleted |-> HowMany(hdrs, IsDeleted),
                 flagged |-> HowMany(hdrs, IsFlagged),
                 tagged |-> HowMany(hdrs, IsTagged),
                 unread |-> HowMany(hdrs, IsUnread),
                 new |-> HowMany(hdrs, IsNew),
                 changed |-> FALSE, readonly |-> mb.readonly,
                 rights |-> mb.rights, magic |-> mb.magic]
       /\ FlagSafe = mb.FlagSafe
  /\ calls = 0
  /\ allUpd = TRUE

\* one call of mutt_set_flag_update
SetFlagCall ==
  /\ calls < MaxCalls
  /\ \E m \in DOMAIN hdrs, flag \in Flags, bf \in BOOLEAN, upd \in BOOLEAN :
       /\ ctx' = SetFlagUpdate(ctx, hdrs[m], FlagSafe, flag, bf, upd).c
       /\ hdrs' = [hdrs EXCEPT
                     ![m] = SetFlagUpdate(ctx, hdrs[m], FlagSafe, flag, bf, upd).h]
       /\ allUpd' = (allUpd /\ upd)
  /\ calls' = calls + 1
  /\ UNCHANGED FlagSafe
  /\ UNCHANGED <<codecVars, urlVars, utfVars, aliasVars>>

NextFlags == SetFlagCall

SpecFlags == InitFlags /\ [][NextFlags]_vars

\* the five counters of ctx are the numbers of the messages they count
CountersAgree ==
  /\ ctx.deleted = HowMany(hdrs, IsDeleted)
  /\ ctx.flagged = HowMany(hdrs, IsFlagged)
  /\ ctx.tagged = HowMany(hdrs, IsTagged)
  /\ ctx.unread = HowMany(hdrs, IsUnread)
  /\ ctx.new = HowMany(hdrs, IsNew)

\* C28: after any calls of mutt_set_flag_update that all had upd_ctx true,
\* from a mailbox whose counters agreed with its messages, ctx->deleted,
\* ctx->flagged, ctx->tagged, ctx->unread and ctx->new are the numbers of the
\* deleted, flagged, tagged, unread and new (neither read nor old) messages,
\* and none is negative.
CountersKept ==
  (calls > 0 /\ allUpd) =>
    /\ CountersAgree
    /\ \A f \in { "deleted", "flagged", "tagged", "unread", "new" } : ctx[f] >= 0

\* both messages were new; one was marked replied, which made it read, and
\* then flagged
CountersKeptWitness ==
  /\ calls = 2 /\ allUpd
  /\ hdrs[1].replied /\ hdrs[1].read /\ hdrs[1].flagged /\ ~hdrs[1].old
  /\ hdrs[2] = Header({ "searched" })
  /\ ctx.unread = 1 /\ ctx.new = 1 /\ ctx.flagged = 1 /\ ctx.changed

\* deleted, purge, read, old, replied, flagged, tagged
Status(h) == << h.deleted, h.purge, h.read, h.old, h.replied, h.flagged, h.tagged >>

\* a message whose status a step changes is no longer marked searched
InvalidatedStep ==
  \A m \in DOMAIN hdrs :
    (Status(hdrs'[m]) # Status(hdrs[m]) /\ hdrs[m].searched) => ~hdrs'[m].searched

\* C29: a call of mutt_set_flag_update that changes a message's deleted,
\* purge, read, old, replied, flagged or tagged bit clears its searched bit if
\* that was set, whatever its changed bit was and whatever upd_ctx is.
SearchInvalidated == [][InvalidatedStep]_vars

-----------------------------------------------------------------------------
(* alias.c: mutt_expand_aliases *)

\* a struct Address
Addr(mb, pers, grp) == [mailbox |-> mb, personal |-> pers, group |-> grp]

\* a plain address: no personal name, no group
Plain(mb) == Addr(mb, FALSE, FALSE)

\* a struct Alias
Alias(name, addrs) == [name |-> name, addr |-> addrs]

\* mutt_str_strcasecmp(x, y) == 0
SameNoCase(x, y) ==
  Len(x) = Len(y) /\ \A i \in 1..Len(x) : ToLower(x[i]) = ToLower(y[i])

\* mutt_alias_lookup: the addresses of the first alias of that name, whatever
\* the case of its letters; nothing when there is none
RECURSIVE AliasLookup(_, _)
AliasLookup(table, mb) ==
  IF table = << >> THEN << >>
  ELSE IF SameNoCase(mb, Head(table).name) THEN Head(table).addr
  ELSE AliasLookup(Tail(table), mb)

\* only the entry put in last is compared
AlreadyFoundFirst(list, mb) == list # << >> /\ list[1] = mb

\* STAILQ_FOREACH(np, expn, entries) if (mutt_str_strcmp(a->mailbox, np->data) == 0)
AlreadyFound(list, mb) == \E i \in 1..Len(list) : list[i] = mb

\* !a->group && !a->personal && a->mailbox && strchr(a->mailbox, '@') == NULL
MayBeAlias(x) ==
  ~x.group /\ ~x.personal /\ x.mailbox # Null /\ \A i \in 1..Len(x.mailbox) : x.mailbox[i] # 64

\* t = mutt_alias_lookup(a->mailbox); if (t)
IsAlias(x) == MayBeAlias(x) /\ AliasLookup(Aliases, x.mailbox) # << >>

\* mutt_addr_qualify: "@d" after the mailbox of every local address
Qualify(list) ==
  [i \in 1..Len(list) |->
     IF ~list[i].group /\ list[i].mailbox # Null
          /\ \A j \in 1..Len(list[i].mailbox) : list[i].mailbox[j] # 64
       THEN [list[i] EXCEPT !.mailbox = @ \o << 64, 100 >>]
       ELSE list[i]]

\* if (UseDomain && (fqdn = mutt_fqdn(true))) mutt_addr_qualify(head, fqdn)
Qualified(list) == IF UseDomain THEN Qualify(list) ELSE list

\* mutt_remove_duplicates: an address whose mailbox an earlier one has is dropped
RECURSIVE RemoveDuplicates(_, _)
RemoveDuplicates(list, seen) ==
  IF list = << >> THEN << >>
  ELSE IF Head(list).group \/ Head(list).mailbox = Null
    THEN << Head(list) >> \o RemoveDuplicates(Tail(list), seen)
  ELSE IF \E i \in 1..Len(seen) : SameNoCase(seen[i], Head(list).mailbox)
    THEN RemoveDuplicates(Tail(list), seen)
  ELSE << Head(list) >>
         \o RemoveDuplicates(Tail(list), Append(seen, Head(list).mailbox))

\* "x", "X", "y", "z", "bob@h", "amy@h"
NameX == << 120 >>
NameUpperX == << 88 >>
NameY == << 121 >>
NameZ == << 122 >>
Bob == << 98, 111, 98, 64, 104 >>
Amy == << 97, 109, 121, 64, 104 >>

\* an alias of itself; two aliases of each other; an alias of itself in
\* capitals; an alias met twice; a ring of three; no alias at all
AliasTables ==
  { << Alias(NameX, << Plain(NameX) >>) >>,
    << Alias(NameX, << Plain(NameY), Plain(Bob) >>),
       Alias(NameY, << Plain(NameX), Plain(Amy) >>) >>,
    << Alias(NameX, << Plain(NameUpperX), Plain(Bob) >>) >>,
    << Alias(NameX, << Plain(NameY), Plain(NameZ) >>),
       Alias(NameY, << Plain(Bob) >>),
       Alias(NameZ, << Plain(NameY), Plain(Amy) >>) >>,
    << Alias(NameX, << Plain(NameY) >>),
       Alias(NameY, << Plain(NameZ) >>),
       Alias(NameZ, << Plain(Amy), Plain(NameX) >>) >>,
    << >> }

\* the addresses a list to expand is made of: names, a name with a personal
\* name, an address with '@', the end of a group
ListAddrs ==
  { Plain(NameX), Plain(NameUpperX), Plain(NameY), Plain(Bob),
    Addr(NameX, TRUE, FALSE), Addr(Null, FALSE, TRUE) }

\* longest list given to mutt_expand_aliases
MaxAddrs == 2

\* mutt_expand_aliases(a) is called: STAILQ_INIT(&expn)
InitAlias ==
  /\ CodecIdle
  /\ UrlIdle
  /\ UtfIdle
  /\ FlagIdle
  /\ Aliases \in AliasTables
  /\ UseDomain \in BOOLEAN
  /\ apc = "run"
  /\ \E list \in SeqsUpTo(ListAddrs, MaxAddrs) :
       frames = << [a |-> list, head |-> << >>] >>
  /\ expn = << >>
  /\ ret = << >>
  /\ expanded = << >>

\* expand_aliases_r stands before an address
AtAddr == apc = "run" /\ frames[1].a # << >>

\* the alias was expanded before: its address is dropped
AliasFound ==
  /\ AtAddr
  /\ IsAlias(Head(frames[1].a))
  /\ AlreadyFound(expn, Head(frames[1].a).mailbox)
  /\ frames' = [frames EXCEPT ![1].a = Tail(@)]
  /\ UNCHANGED <<Aliases, UseDomain, apc, expn, ret, expanded>>
  /\ UNCHANGED <<codecVars, urlVars, utfVars, flagVars>>

\* the alias is put on expn and expand_aliases_r is called with a copy of its
\* addresses
AliasExpand ==
  /\ AtAddr
  /\ IsAlias(Head(frames[1].a))
  /\ ~AlreadyFound(expn, Head(frames[1].a).mailbox)
  /\ expn' = << Head(frames[1].a).mailbox >> \o expn
  /\ frames' = << [a |-> AliasLookup(Aliases, Head(frames[1].a).mailbox),
                   head |-> << >>] >> \o frames
  /\ expanded' = Append(expanded, Head(frames[1].a).mailbox)
  /\ UNCHANGED <<Aliases, UseDomain, apc, ret>>
  /\ UNCHANGED <<codecVars, urlVars, utfVars, flagVars>>

\* the inner call returns: its list goes to the end of head, and the alias's
\* address is dropped
AliasReturn ==
  /\ apc = "run" /\ Len(frames) > 1 /\ frames[1].a = << >>
  /\ frames' = [Tail(frames) EXCEPT
                  ![1].head = @ \o Qualified(frames[1].head),
                  ![1].a = Tail(@)]
  /\ UNCHANGED <<Aliases, UseDomain, apc, expn, ret, expanded>>
  /\ UNCHANGED <<codecVars, urlVars, utfVars, flagVars>>

\* an address that is no alias goes to the end of head; a local user's name
\* becomes its personal name
AliasKeep ==
  /\ AtAddr
  /\ ~IsAlias(Head(frames[1].a))
  /\ \E pw \in BOOLEAN :
       frames' = [frames EXCEPT
                    ![1].head = Append(@, [Head(frames[1].a) EXCEPT
                                   !.personal = @ \/ (MayBeAlias(Head(frames[1].a)) /\ pw)]),
                    ![1].a = Tail(@)]
  /\ UNCHANGED <<Aliases, UseDomain, apc, expn, ret, expanded>>
  /\ UNCHANGED <<codecVars, urlVars, utfVars, flagVars>>

\* the outer call returns: mutt_list_free(&expn), mutt_remove_duplicates(t)
AliasDone ==
  /\ apc = "run" /\ Len(frames) = 1 /\ frames[1].a = << >>
  /\ ret' = RemoveDuplicates(Qualified(frames[1].head), << >>)
  /\ apc' = "done"
  /\ frames' = << >>
  /\ expn' = << >>
  /\ UNCHANGED <<Aliases, UseDomain, expanded>>
  /\ UNCHANGED <<codecVars, urlVars, utfVars, flagVars>>

NextAlias ==
  \/ AliasFound
  \/ AliasExpand
  \/ AliasReturn
  \/ AliasKeep
  \/ AliasDone

\* a call that can go on does go on
SpecAlias == InitAlias /\ [][NextAlias]_vars /\ WF_vars(NextAlias)

\* the name the table has for the alias that was expanded as mb
RECURSIVE NameOf(_, _)
NameOf(table, mb) ==
  IF table = << >> THEN mb
  ELSE IF SameNoCase(mb, Head(table).name) THEN Head(table).name
  ELSE NameOf(Tail(table), mb)

\* no alias of the table was expanded twice
OncePerName ==
  \A i, j \in 1..Len(expanded) :
    NameOf(Aliases, expanded[i]) = NameOf(Aliases, expanded[j]) => i = j

\* C30: mutt_expand_aliases terminates for every alias table, and in one call
\* no alias name is expanded more than once.
ExpandedOncePerName == []OncePerName /\ <>(apc = "done")

\* no mailbox, taken letter for letter, was expanded twice, and each one that
\* was expanded names an alias
OncePerSpelling ==
  /\ \A i, j \in 1..Len(expanded) : expanded[i] = expanded[j] => i = j
  /\ \A i \in 1..Len(expanded) : AliasLookup(Aliases, expanded[i]) # << >>
  /\ apc = "run" =>
       /\ Len(expn) = Len(expanded)
       /\ \A i \in 1..Len(expn) : expn[i] = expanded[Len(expanded) + 1 - i]
       /\ Len(frames) <= Len(expn) + 1

\* what does hold: mutt_expand_aliases terminates for every alias table, and
\* in one call no mailbox is expanded more than once, two mailboxes being the
\* same when they agree letter for letter; an alias is expanded once for each
\* spelling of its name that is met
ExpandedOncePerSpelling == []OncePerSpelling /\ <>(apc = "done")

\* "x" and "y" are aliases of each other: "x, y" has become "bob@h, amy@h",
\* each alias expanded once
ExpandedOncePerSpellingWitness ==
  /\ apc = "done" /\ ~UseDomain
  /\ Len(Aliases) = 2 /\ Aliases[2].name = NameY /\ Aliases[2].addr[1].mailbox = NameX
  /\ expanded = << NameX, NameY >>
  /\ ret = << Plain(Amy), Plain(Bob) >>

=============================================================================
